---------------------------- MODULE Spec2Model ----------------------------
(***************************************************************************)
(* A model of brainbrain (src/brainbrain.c): the parser that builds the    *)
(* block graph of a brainf*ck source with peephole coalescing, and the     *)
(* non-recursive emitter that renders it for one of three targets.         *)
(*                                                                         *)
(* Pointers to Block are indices into `heap` (allocation order), NULL is   *)
(* 0.  A string is a sequence of one-character strings.  A FILE is a       *)
(* record holding the text that reached it and the sink's behaviour.       *)
(***************************************************************************)
EXTENDS Integers, Sequences, FiniteSets, TLC

VARIABLES
    src,        \* main: the source text read from the input file
    pos,        \* parse: index of the character `c` points at
    heap,       \* every Block allocated so far, by address
    block,      \* parse: the current block
    unclosed,   \* parse: the stack of blocks awaiting their ']'
    pc,         \* where the program is
    flie,       \* main: the program parse returned (NULL before)
    stderr,     \* what was written to stderr
    exitcode,   \* the process's exit status (-1 while running)
    target,     \* main: the selected target
    cur,        \* emit_code: its `block` cursor
    layer,      \* emit_code: the nesting depth counter
    loops,      \* emit_code: the stack of open loop headers
    file,       \* the output sink
    arg,        \* function-level checks: the input drawn
    res         \* function-level checks: what the code made of it

\* The program's own state.
prog == << src, pos, heap, block, unclosed, pc, flie, stderr, exitcode,
           target, cur, layer, loops, file >>

vars == << prog, arg, res >>

(***************************************************************************)
(* Bounds of the model.                                                    *)
(***************************************************************************)
MaxLen == 4      \* the longest source the whole program is run on
MaxTrip == 3     \* the longest source of the round trip, long runs aside
MaxFile == 3     \* the longest input file whose bytes include the zero byte
MaxTrav == 6     \* the longest source whose program is traversed step by step
MaxProg == 4     \* the longest source that is interpreted
MaxInput == 1    \* the longest input stream (zeros follow it)
MaxSteps == 400  \* the number of steps the two interpretations are followed for
MaxRepr == 4     \* the longest source whose representation is run
MaxMem == 3      \* the largest memory size the representation is run on
MaxStream == 2   \* the longest input stream of these runs
MaxExec == 24    \* the number of steps these runs are followed for
RunSlack == 1    \* run lengths are taken this close to 0, half the modulus and the modulus

(***************************************************************************)
(* Program constants.                                                      *)
(***************************************************************************)
BF_MEMORY_SIZE == 3000
UINT8_MAX == 255
INT8_MAX == 127
NULL == 0
\* size_t's largest value; 2^64 - 1 in the build, here the largest integer
\* the checker represents.
SIZE_MAX == 2147483647

\* `n - 1` on a size_t.
SizeDec(n) == IF n = 0 THEN SIZE_MAX ELSE n - 1

OP_TAG_INC == "OP_TAG_INC"
OP_TAG_SHIFT == "OP_TAG_SHIFT"
OP_TAG_READ == "OP_TAG_READ"
OP_TAG_WRITE == "OP_TAG_WRITE"

TARGET_BF == "TARGET_BF"
TARGET_NASM_LIBC == "TARGET_NASM_LIBC"
TARGET_NASM_LINUX == "TARGET_NASM_LINUX"

\* The eight command characters and one character that is none of them.
Commands == {"+", "-", "<", ">", ".", ",", "[", "]"}
Chars == Commands \cup {"x"}

\* Every string over `alphabet` of length at most n.
Strings(alphabet, n) == UNION {[1..k -> alphabet] : k \in 0..n}

(***************************************************************************)
(* Data: Op, Block (src/brainbrain.c:82-136).                              *)
(***************************************************************************)
\* An Op: the tag and the union's value (inc.value or shift.index; a
\* compound literal leaves it zero for Read and Write).
Op(tag, value) == [tag |-> tag, value |-> value]

\* calloc(1, sizeof(Block)): no links, no ops.
NewBlock == [next |-> NULL, exit |-> NULL, ops |-> << >>]

(***************************************************************************)
(* crash_bad_bf: one message on stderr, exit(1).                           *)
(***************************************************************************)
BadBfMessage == "error: Source code contatins invalid brainf*ck.\n"

\* What a call of crash_bad_bf leaves for the caller of the program.
crash_bad_bf == [message |-> BadBfMessage, status |-> 1]

(***************************************************************************)
(* block_append_op on a block's op sequence (the first `count` items).     *)
(***************************************************************************)
\* Mutant: two adjacent Shifts are not merged.
block_append_op_NoShiftMerge(ops, op) ==
    LET n == Len(ops)
        last == ops[n]
    IN IF n # 0 /\ last.tag = op.tag /\ op.tag = OP_TAG_INC
       THEN LET v == (last.value + op.value) % (UINT8_MAX + 1)
            IN IF v = 0 THEN SubSeq(ops, 1, n - 1)
                        ELSE [ops EXCEPT ![n].value = v]
       ELSE Append(ops, op)

\* Mutant: a merged op whose value became 0 is kept.
block_append_op_KeepZero(ops, op) ==
    LET n == Len(ops)
        last == ops[n]
    IN IF n # 0 /\ last.tag = op.tag /\ op.tag = OP_TAG_INC
       THEN [ops EXCEPT ![n].value = (last.value + op.value) % (UINT8_MAX + 1)]
       ELSE IF n # 0 /\ last.tag = op.tag /\ op.tag = OP_TAG_SHIFT
       THEN [ops EXCEPT ![n].value = ((last.value + op.value) % 65536) % BF_MEMORY_SIZE]
       ELSE Append(ops, op)

\* Mutant: every op with the tag of the last one is merged into it, a Read
\* or Write too.
block_append_op_MergeIO(ops, op) ==
    LET n == Len(ops)
        last == ops[n]
    IN IF n # 0 /\ last.tag = op.tag /\ op.tag = OP_TAG_INC
       THEN LET v == (last.value + op.value) % (UINT8_MAX + 1)
            IN IF v = 0 THEN SubSeq(ops, 1, n - 1)
                        ELSE [ops EXCEPT ![n].value = v]
       ELSE IF n # 0 /\ last.tag = op.tag /\ op.tag = OP_TAG_SHIFT
       THEN LET s == (last.value + op.value) % 65536
                v == s % BF_MEMORY_SIZE
            IN IF v = 0 THEN SubSeq(ops, 1, n - 1)
                        ELSE [ops EXCEPT ![n].value = v]
       ELSE IF n # 0 /\ last.tag = op.tag
       THEN ops
       ELSE Append(ops, op)

\* Mutant: a merged Increment is not reduced modulo 256.
block_append_op_NoWrap(ops, op) ==
    LET n == Len(ops)
        last == ops[n]
    IN IF n # 0 /\ last.tag = op.tag /\ op.tag = OP_TAG_INC
       THEN LET v == last.value + op.value
            IN IF v = 0 THEN SubSeq(ops, 1, n - 1)
                        ELSE [ops EXCEPT ![n].value = v]
       ELSE IF n # 0 /\ last.tag = op.tag /\ op.tag = OP_TAG_SHIFT
       THEN LET s == (last.value + op.value) % 65536
                v == s % BF_MEMORY_SIZE
            IN IF v = 0 THEN SubSeq(ops, 1, n - 1)
                        ELSE [ops EXCEPT ![n].value = v]
       ELSE Append(ops, op)

\* Mutant: a merged Shift whose value became 0 is kept.
block_append_op_KeepZeroShift(ops, op) ==
    LET n == Len(ops)
        last == ops[n]
    IN IF n # 0 /\ last.tag = op.tag /\ op.tag = OP_TAG_INC
       THEN LET v == (last.value + op.value) % (UINT8_MAX + 1)
            IN IF v = 0 THEN SubSeq(ops, 1, n - 1)
                        ELSE [ops EXCEPT ![n].value = v]
       ELSE IF n # 0 /\ last.tag = op.tag /\ op.tag = OP_TAG_SHIFT
       THEN [ops EXCEPT ![n].value = ((last.value + op.value) % 65536) % BF_MEMORY_SIZE]
       ELSE Append(ops, op)

\* Mutant: merged Increments stop at 255 instead of wrapping.
block_append_op_Saturating(ops, op) ==
    IF ops # << >> /\ ops[Len(ops)].tag = op.tag /\ op.tag = OP_TAG_INC
    THEN [ops EXCEPT ![Len(ops)].value =
                         IF @ + op.value > UINT8_MAX THEN UINT8_MAX ELSE @ + op.value]
    ELSE IF ops # << >> /\ ops[Len(ops)].tag = op.tag /\ op.tag = OP_TAG_SHIFT
    THEN LET sum == (ops[Len(ops)].value + op.value) % BF_MEMORY_SIZE
         IN IF sum = 0 THEN SubSeq(ops, 1, Len(ops) - 1)
            ELSE [ops EXCEPT ![Len(ops)].value = sum]
    ELSE Append(ops, op)

block_append_op(ops, op) ==
    LET n == Len(ops)
        last == ops[n]
    IN IF n # 0 /\ last.tag = op.tag /\ op.tag = OP_TAG_INC
       THEN LET v == (last.value + op.value) % (UINT8_MAX + 1)   \* uint8_t +=
            IN IF v = 0 THEN SubSeq(ops, 1, n - 1)
                        ELSE [ops EXCEPT ![n].value = v]
       ELSE IF n # 0 /\ last.tag = op.tag /\ op.tag = OP_TAG_SHIFT
       THEN LET s == (last.value + op.value) % 65536             \* uint16_t +=
                v == s % BF_MEMORY_SIZE
            IN IF v = 0 THEN SubSeq(ops, 1, n - 1)
                        ELSE [ops EXCEPT ![n].value = v]
       ELSE Append(ops, op)

\* The Op parse makes of an operation character.
OpOfChar(ch) ==
    CASE ch = "+" -> Op(OP_TAG_INC, 1)
      [] ch = "-" -> Op(OP_TAG_INC, UINT8_MAX)
      [] ch = "<" -> Op(OP_TAG_SHIFT, BF_MEMORY_SIZE - 1)
      [] ch = ">" -> Op(OP_TAG_SHIFT, 1)
      [] ch = "," -> Op(OP_TAG_READ, 0)
      [] ch = "." -> Op(OP_TAG_WRITE, 0)

(***************************************************************************)
(* parse, as a state [heap, block, unclosed, crashed] stepped one          *)
(* character at a time.                                                    *)
(***************************************************************************)
\* The state before the loop: the root block, no open loop.
ParseStart ==
    [heap |-> << NewBlock >>, block |-> 1, unclosed |-> << >>, crashed |-> FALSE]

\* One iteration of parse's loop on character ch.
\* Mutant: ']' closes the loop that was opened first, not the one opened last.
ParseChar_ClosesOutermost(p, ch) ==
    IF ch \in {"+", "-", ">", "<", ".", ","}
    THEN [p EXCEPT !.heap[p.block].ops = block_append_op(@, OpOfChar(ch))]
    ELSE IF ch = "["
    THEN LET next == Len(p.heap) + 1
         IN [p EXCEPT !.heap = Append([p.heap EXCEPT ![p.block].next = next], NewBlock),
                      !.block = next,
                      !.unclosed = Append(@, next)]
    ELSE IF ch = "]"
    THEN IF Len(p.unclosed) = 0
         THEN [p EXCEPT !.crashed = TRUE]
         ELSE LET backedge == p.unclosed[1]
                  next == Len(p.heap) + 1
              IN [p EXCEPT !.heap = Append([p.heap EXCEPT ![backedge].exit = next], NewBlock),
                           !.block = next,
                           !.unclosed = SubSeq(@, 2, Len(@))]
    ELSE p

\* Mutant: the last block of a loop body is linked back to the loop header.
ParseChar_LinksBack(p, ch) ==
    IF ch \in {"+", "-", ">", "<", ".", ","}
    THEN [p EXCEPT !.heap[p.block].ops = block_append_op(@, OpOfChar(ch))]
    ELSE IF ch = "["
    THEN LET next == Len(p.heap) + 1
         IN [p EXCEPT !.heap = Append([p.heap EXCEPT ![p.block].next = next], NewBlock),
                      !.block = next,
                      !.unclosed = Append(@, next)]
    ELSE IF ch = "]"
    THEN IF Len(p.unclosed) = 0
         THEN [p EXCEPT !.crashed = TRUE]
         ELSE LET backedge == p.unclosed[Len(p.unclosed)]
                  next == Len(p.heap) + 1
              IN [p EXCEPT !.heap = Append([p.heap EXCEPT ![backedge].exit = next,
                                                          ![p.block].next = backedge],
                                           NewBlock),
                           !.block = next,
                           !.unclosed = SubSeq(@, 1, Len(@) - 1)]
    ELSE p

ParseChar(p, ch) ==
    IF ch \in {"+", "-", ">", "<", ".", ","}
    THEN [p EXCEPT !.heap[p.block].ops = block_append_op(@, OpOfChar(ch))]
    ELSE IF ch = "["
    THEN LET next == Len(p.heap) + 1
         IN [p EXCEPT !.heap = Append([p.heap EXCEPT ![p.block].next = next], NewBlock),
                      !.block = next,
                      !.unclosed = Append(@, next)]
    ELSE IF ch = "]"
    THEN IF Len(p.unclosed) = 0                     \* blocks_pop: crash_bad_bf
         THEN [p EXCEPT !.crashed = TRUE]
         ELSE LET backedge == p.unclosed[Len(p.unclosed)]
                  next == Len(p.heap) + 1
              IN [p EXCEPT !.heap = Append([p.heap EXCEPT ![backedge].exit = next], NewBlock),
                           !.block = next,
                           !.unclosed = SubSeq(@, 1, Len(@) - 1)]
    ELSE p

\* Mutant: the check for loops left open is missing.
ParseEnd_NoOpenCheck(p) == p

\* After the loop: crash when a loop is still open.
ParseEnd(p) == IF Len(p.unclosed) # 0 THEN [p EXCEPT !.crashed = TRUE] ELSE p

\* The loop over the characters i..j of s, from state p, stopping at a
\* crash.  The range is processed in two halves to keep the evaluation
\* shallow on long strings; the characters are still consumed in order.
RECURSIVE ParseRange(_, _, _, _)
ParseRange(p, s, i, j) ==
    IF p.crashed \/ i > j THEN p
    ELSE IF i = j THEN ParseChar(p, s[i])
    ELSE LET m == (i + j) \div 2
         IN ParseRange(ParseRange(p, s, i, m), s, m + 1, j)

\* The loop over a whole string, from state p.
ParseFrom(p, s) == ParseRange(p, s, 1, Len(s))

\* parse(s): the final state (crashed, or the heap rooted at block 1).
Parse(s) == LET p == ParseFrom(ParseStart, s)
            IN IF p.crashed THEN p ELSE ParseEnd(p)

(***************************************************************************)
(* The output sink.  A FILE holds the text that reached it, as a sequence  *)
(* of atoms: single characters for the bf target, whole lines for the      *)
(* assembly targets.  Each fputs/fprintf call is one write.  The sink      *)
(* accepts `budget` more writes (-1: all of them) and then fails for       *)
(* good; of the failing write, at most `torn` leading atoms (never all of  *)
(* them) still reach the sink.  `count` counts the writes attempted and    *)
(* `late` those attempted after the failure.                               *)
(***************************************************************************)
NoFile ==
    [text |-> << >>, opened |-> FALSE, budget |-> -1, torn |-> 0,
     failed |-> FALSE, count |-> 0, late |-> 0]

Min(a, b) == IF a < b THEN a ELSE b

\* A call whose result x is held in a local and used by Body: the call is
\* made once, however often Body looks at its result.
Once(x, Body(_)) == CHOOSE out \in { Body(v) : v \in {x} } : TRUE

\* `if (!first) return 0;` followed by the rest of the function.
Then(r, Rest(_)) == Once(r, LAMBDA v : IF v.ok THEN Rest(v.file) ELSE v)

\* One fputs or fprintf call: the result (ok: no error was returned) and
\* the file afterwards.
Put(f, atoms) ==
    IF f.failed
    THEN [ok |-> FALSE, file |-> [f EXCEPT !.count = @ + 1, !.late = @ + 1]]
    ELSE IF f.budget = 0
    THEN [ok |-> FALSE,
          file |-> [f EXCEPT !.failed = TRUE, !.count = @ + 1, !.torn = 0,
                             !.text = @ \o SubSeq(atoms, 1, Min(f.torn, Len(atoms) - 1))]]
    ELSE [ok |-> TRUE,
          file |-> [f EXCEPT !.text = @ \o atoms, !.count = @ + 1,
                             !.budget = IF @ > 0 THEN @ - 1 ELSE @]]

Ok(f) == [ok |-> TRUE, file |-> f]

(***************************************************************************)
(* The per-target renderers (src/brainbrain.c:247-528).                    *)
(***************************************************************************)
RECURSIVE print_tab(_, _)
print_tab(count, f) ==
    IF count = 0 THEN Ok(f)
    ELSE Then(Put(f, << " ", " ", " ", " " >>), LAMBDA g : print_tab(count - 1, g))

\* `for (int i = n; i > 0; i--) if (fprintf(file, ch) < 0) return 0;`
\* The n calls are made in two halves to keep the evaluation shallow; they
\* are still made one after the other, up to the first that fails.
RECURSIVE PrintTimes(_, _, _)
PrintTimes(ch, n, f) ==
    IF n <= 0 THEN Ok(f)
    ELSE IF n = 1 THEN Put(f, << ch >>)
    ELSE Then(PrintTimes(ch, n \div 2, f), LAMBDA g : PrintTimes(ch, n - n \div 2, g))

LinuxHead ==
    << "global _start", "", "section .bss", "tmp resd 1", "", "section .data",
       "mem db 3000 dup(0)", "", "section .text", "_start:", "xor esi, esi" >>

LibcHead ==
    << "extern putchar", "extern getchar", "extern exit", "global _start", "",
       "section .data", "mem db 3000 dup(0)", "", "section .text", "_start:",
       "xor esi, esi" >>

emit_file_head(f, t) ==
    CASE t = TARGET_BF -> Ok(f)
      [] t = TARGET_NASM_LINUX -> Put(f, LinuxHead)
      [] t = TARGET_NASM_LIBC -> Put(f, LibcHead)

emit_file_tail(f, t) ==
    CASE t = TARGET_BF -> Ok(f)
      [] t = TARGET_NASM_LINUX -> Put(f, << "mov eax, 1", "mov ebx, 0", "int 80h" >>)
      [] t = TARGET_NASM_LIBC -> Put(f, << "mov rdi, 0", "call exit" >>)

\* Mutant: the label text tells only whether the address is odd or even.
Ptr_LowBit(b) == ToString(b % 2)

\* The label text of a block: "%p" of its address.
Ptr(b) == ToString(b)

emit_loop_head(loop, lay, f, t) ==
    IF t = TARGET_BF
    THEN Then(print_tab(lay, f), LAMBDA g : Put(g, << "[", "\n" >>))
    ELSE Put(f, << ".loop_" \o Ptr(loop) \o ":", "cmp byte [mem + esi], 0",
                   "je .end_" \o Ptr(loop) >>)

\* Mutant: the closing bracket is indented like the body of its loop.
emit_loop_tail_BodyDepth(loop, lay, f, t) ==
    IF t = TARGET_BF
    THEN Then(print_tab(lay, f),
              LAMBDA g : Put(g, << "]", "\n" >>))
    ELSE Put(f, << "jmp .loop_" \o Ptr(loop), ".end_" \o Ptr(loop) \o ":" >>)

emit_loop_tail(loop, lay, f, t) ==
    IF t = TARGET_BF
    THEN Then(print_tab(SizeDec(lay), f),
              LAMBDA g : Put(g, << "]", "\n" >>))
    ELSE Put(f, << "jmp .loop_" \o Ptr(loop), ".end_" \o Ptr(loop) \o ":" >>)

\* Mutant: the two's complement of the value is taken one short.
inc_signed_count_OffByOne(value) ==
    IF value > INT8_MAX THEN -(UINT8_MAX - value) ELSE value

inc_signed_count(value) ==
    IF value > INT8_MAX THEN -(UINT8_MAX - value + 1) ELSE value

emit_op_inc(value, lay, f, t) ==
    IF t = TARGET_BF
    THEN LET count == inc_signed_count(value)
         IN Then(print_tab(lay, f), LAMBDA g :
            Then(PrintTimes("+", count, g), LAMBDA h :
            Then(PrintTimes("-", -count, h), LAMBDA k :
            Put(k, << "\n" >>))))
    ELSE Put(f, << "mov al, [mem + esi]", "add al, " \o ToString(value),
                   "mov [mem + esi], al" >>)

\* Mutant: a distance is never turned into the shorter backward move.
shift_signed_count_Forward(index) == index

shift_signed_count(index) ==
    IF index > BF_MEMORY_SIZE \div 2 THEN -(BF_MEMORY_SIZE - index) ELSE index

\* Mutant: dx is not cleared before the division.
emit_op_shift_NoClearDx(index, lay, f, t) ==
    IF t = TARGET_BF
    THEN LET count == shift_signed_count(index)
         IN Then(print_tab(lay, f), LAMBDA g :
            Then(PrintTimes(">", count, g), LAMBDA h :
            Then(PrintTimes("<", -count, h), LAMBDA k :
            Put(k, << "\n" >>))))
    ELSE Put(f, << "add si, " \o ToString(index), "mov ax, si",
                   "mov bx, 3000", "div bx", "mov si, dx" >>)

emit_op_shift(index, lay, f, t) ==
    IF t = TARGET_BF
    THEN LET count == shift_signed_count(index)
         IN Then(print_tab(lay, f), LAMBDA g :
            Then(PrintTimes(">", count, g), LAMBDA h :
            Then(PrintTimes("<", -count, h), LAMBDA k :
            Put(k, << "\n" >>))))
    ELSE Put(f, << "add si, " \o ToString(index), "xor dx, dx", "mov ax, si",
                   "mov bx, 3000", "div bx", "mov si, dx" >>)

emit_op_read(f, lay, t) ==
    CASE t = TARGET_BF -> Then(print_tab(lay, f), LAMBDA g : Put(g, << ",", "\n" >>))
      [] t = TARGET_NASM_LIBC -> Put(f, << "call getchar", "mov [mem + esi], al" >>)
      [] t = TARGET_NASM_LINUX ->
            Put(f, << "mov eax, 0x3", "mov ebx, 0x1", "mov ecx, tmp", "mov edx, 0x1",
                      "int 80h", "mov eax, [tmp]", "mov [mem + esi], eax" >>)

emit_op_write(f, lay, t) ==
    CASE t = TARGET_BF -> Then(print_tab(lay, f), LAMBDA g : Put(g, << ".", "\n" >>))
      [] t = TARGET_NASM_LIBC ->
            Put(f, << "xor rdi, rdi", "mov dil, [mem + esi]", "call putchar" >>)
      [] t = TARGET_NASM_LINUX ->
            Put(f, << "xor eax, eax", "mov al, [mem + esi]", "mov [tmp], eax",
                      "mov eax, 0x4", "mov ebx, 0x1", "mov ecx, tmp", "mov edx, 0x1",
                      "int 80h" >>)

\* The switch of emit_code's op loop.
emit_op(op, lay, f, t) ==
    CASE op.tag = OP_TAG_INC -> emit_op_inc(op.value, lay, f, t)
      [] op.tag = OP_TAG_SHIFT -> emit_op_shift(op.value, lay, f, t)
      [] op.tag = OP_TAG_READ -> emit_op_read(f, lay, t)
      [] op.tag = OP_TAG_WRITE -> emit_op_write(f, lay, t)

(***************************************************************************)
(* emit_code, as a state [block, layer, loops, file, at] stepped one       *)
(* iteration of its while loop at a time; `at` is "head" before the        *)
(* preamble, "loop" at the top of an iteration, "tail" after the break,    *)
(* "ok" after `return 1` and "error" after `goto error`.                   *)
(***************************************************************************)
EmitStart(root, f) ==
    [block |-> root, layer |-> 0, loops |-> << >>, file |-> f, at |-> "head"]

\* `goto error`: loops is freed, 0 is returned.
EmitError(e, f) == [e EXCEPT !.file = f, !.at = "error"]

\* emit_file_head and the entry into the loop.
EmitBeginOf(e, t) ==
    Once(emit_file_head(e.file, t), LAMBDA r :
         IF r.ok THEN [e EXCEPT !.file = r.file, !.at = "loop"] ELSE EmitError(e, r.file))

\* Mutant: a header without ops is not treated as a loop.
EmitEnter_SkipEmpty(h, e, t) ==
    IF h[e.block].exit # NULL /\ h[e.block].ops # << >>
    THEN Once(emit_loop_head(e.block, e.layer, e.file, t), LAMBDA r :
              IF r.ok
              THEN [e EXCEPT !.file = r.file, !.loops = Append(@, e.block), !.layer = @ + 1]
              ELSE EmitError(e, r.file))
    ELSE e

\* Lines 537-542: the loop-open form of a loop header.
EmitEnter(h, e, t) ==
    IF h[e.block].exit # NULL
    THEN Once(emit_loop_head(e.block, e.layer, e.file, t), LAMBDA r :
              IF r.ok
              THEN [e EXCEPT !.file = r.file, !.loops = Append(@, e.block), !.layer = @ + 1]
              ELSE EmitError(e, r.file))
    ELSE e

\* Mutant: the result of rendering an op is not looked at.
RECURSIVE EmitOps_IgnoreFailure(_, _, _, _)
EmitOps_IgnoreFailure(h, e, t, i) ==
    IF i > Len(h[e.block].ops) THEN e
    ELSE Once(emit_op(h[e.block].ops[i], e.layer, e.file, t), LAMBDA r :
              EmitOps_IgnoreFailure(h, [e EXCEPT !.file = r.file], t, i + 1))

\* Lines 544-565: the ops of the block from index i on.
RECURSIVE EmitOps(_, _, _, _)
EmitOps(h, e, t, i) ==
    IF i > Len(h[e.block].ops) THEN e
    ELSE Once(emit_op(h[e.block].ops[i], e.layer, e.file, t), LAMBDA r :
              IF r.ok THEN EmitOps(h, [e EXCEPT !.file = r.file], t, i + 1)
                      ELSE EmitError(e, r.file))

\* Mutant: the depth counter is not decremented when a loop is left.
EmitAdvance_NoLayerDec(h, e, t) ==
    IF h[e.block].next = NULL
    THEN IF Len(e.loops) = 0
         THEN [e EXCEPT !.at = "tail"]
         ELSE LET popped == e.loops[Len(e.loops)]
              IN Once(emit_loop_tail(popped, e.layer, e.file, t), LAMBDA r :
                 IF r.ok
                 THEN [e EXCEPT !.file = r.file,
                                !.loops = SubSeq(@, 1, Len(@) - 1),
                                !.block = h[popped].exit]
                 ELSE EmitError([e EXCEPT !.loops = SubSeq(@, 1, Len(@) - 1),
                                          !.block = popped], r.file))
    ELSE [e EXCEPT !.block = h[e.block].next]

\* Mutant: the header that is popped is the outermost open one.
EmitAdvance_PopsOutermost(h, e, t) ==
    IF h[e.block].next = NULL
    THEN IF Len(e.loops) = 0
         THEN [e EXCEPT !.at = "tail"]
         ELSE LET popped == e.loops[1]
              IN Once(emit_loop_tail(popped, e.layer, e.file, t), LAMBDA r :
                 IF r.ok
                 THEN [e EXCEPT !.file = r.file,
                                !.loops = SubSeq(@, 2, Len(@)),
                                !.block = h[popped].exit,
                                !.layer = SizeDec(@)]
                 ELSE EmitError([e EXCEPT !.loops = SubSeq(@, 2, Len(@)),
                                          !.block = popped], r.file))
    ELSE [e EXCEPT !.block = h[e.block].next]

\* Lines 566-574: on to the next block, or out of the innermost open loop.
EmitAdvance(h, e, t) ==
    IF h[e.block].next = NULL
    THEN IF Len(e.loops) = 0
         THEN [e EXCEPT !.at = "tail"]
         ELSE LET popped == e.loops[Len(e.loops)]
              IN Once(emit_loop_tail(popped, e.layer, e.file, t), LAMBDA r :
                 IF r.ok
                 THEN [e EXCEPT !.file = r.file,
                                !.loops = SubSeq(@, 1, Len(@) - 1),
                                !.block = h[popped].exit,
                                !.layer = SizeDec(@)]
                 ELSE EmitError([e EXCEPT !.loops = SubSeq(@, 1, Len(@) - 1),
                                          !.block = popped], r.file))
    ELSE [e EXCEPT !.block = h[e.block].next]

\* Mutant: the first op of every block is left out.
EmitIterOf_SkipFirstOp(h, e, t) ==
    Once(EmitEnter(h, e, t), LAMBDA a :
         IF a.at = "error" THEN a
         ELSE Once(EmitOps(h, a, t, 2), LAMBDA b :
                   IF b.at = "error" THEN b ELSE EmitAdvance(h, b, t)))

\* One iteration of the while loop.
EmitIterOf(h, e, t) ==
    Once(EmitEnter(h, e, t), LAMBDA a :
         IF a.at = "error" THEN a
         ELSE Once(EmitOps(h, a, t, 1), LAMBDA b :
                   IF b.at = "error" THEN b ELSE EmitAdvance(h, b, t)))

\* emit_file_tail, the assertion (a failed assert aborts the program) and
\* `return 1`.
EmitEndOf(e, t) ==
    Once(emit_file_tail(e.file, t), LAMBDA r :
         IF ~r.ok THEN EmitError(e, r.file)
         ELSE IF e.layer # 0 THEN [e EXCEPT !.file = r.file, !.at = "abort"]
         ELSE [e EXCEPT !.file = r.file, !.at = "ok"])

\* One step of emit_code from state e.
EmitStepOf(h, e, t) ==
    CASE e.at = "head" -> EmitBeginOf(e, t)
      [] e.at = "loop" -> EmitIterOf(h, e, t)
      [] e.at = "tail" -> EmitEndOf(e, t)
      [] OTHER -> e

\* emit_code run to its return.
RECURSIVE EmitRun(_, _, _)
EmitRun(h, e, t) ==
    IF e.at \in {"ok", "error", "abort"} THEN e ELSE EmitRun(h, EmitStepOf(h, e, t), t)

\* emit_code(root, file, target): the final state.
emit_code(h, root, f, t) == EmitRun(h, EmitStart(root, f), t)

(***************************************************************************)
(* The program: main reads the source, parses it, opens the output and     *)
(* emits.                                                                  *)
(***************************************************************************)
\* The status of a program that abort() ended: 128 + SIGABRT.
SIGABRT_STATUS == 134

TARGET_NOT_SELECTED == "TARGET_NOT_SELECTED"
Targets == {TARGET_BF, TARGET_NASM_LIBC, TARGET_NASM_LINUX}

\* Nothing has been applied yet.
None == [done |-> FALSE]

Init ==
    /\ src \in Strings(Chars, MaxLen)
    /\ pos = 1
    /\ heap = ParseStart.heap
    /\ block = ParseStart.block
    /\ unclosed = ParseStart.unclosed
    /\ pc = "parse"
    /\ flie = NULL
    /\ stderr = << >>
    /\ exitcode = -1
    /\ target = TARGET_NOT_SELECTED
    /\ cur = NULL
    /\ layer = 0
    /\ loops = << >>
    /\ file = NoFile
    /\ arg = << >>
    /\ res = None

ParserState == [heap |-> heap, block |-> block, unclosed |-> unclosed, crashed |-> FALSE]

\* crash_bad_bf(): the message, exit(1); nothing is returned.
CrashBadBf ==
    /\ stderr' = Append(stderr, crash_bad_bf.message)
    /\ exitcode' = crash_bad_bf.status
    /\ pc' = "crashed"

\* One iteration of parse's for loop.
ParseStep ==
    /\ pc = "parse"
    /\ pos <= Len(src)
    /\ LET p == ParseChar(ParserState, src[pos])
       IN /\ heap' = p.heap
          /\ block' = p.block
          /\ unclosed' = p.unclosed
          /\ IF p.crashed
             THEN CrashBadBf /\ pos' = pos
             ELSE pos' = pos + 1 /\ UNCHANGED << pc, stderr, exitcode >>
    /\ UNCHANGED << src, flie, target, cur, layer, loops, file, arg, res >>

\* The end of the source: the open-loop check and the return of root.
ParseReturn ==
    /\ pc = "parse"
    /\ pos > Len(src)
    /\ IF ParseEnd(ParserState).crashed
       THEN CrashBadBf /\ flie' = flie
       ELSE /\ flie' = 1
            /\ pc' = "parsed"
            /\ UNCHANGED << stderr, exitcode >>
    /\ UNCHANGED << src, pos, heap, block, unclosed, target, cur, layer, loops, file, arg, res >>

\* Mutant: the output is opened while the source is still being parsed.
OpenOutput_BeforeParse ==
    /\ pc = "parse"
    /\ ~file.opened
    /\ file' = [file EXCEPT !.opened = TRUE]
    /\ UNCHANGED << src, pos, heap, block, unclosed, pc, flie, stderr, exitcode, target,
                    cur, layer, loops, arg, res >>

\* main, lines 695-705: the output is stdout or the file fopen returns; a
\* failed fopen ends the program.  The target is the one the command line
\* selected.
OpenOutput ==
    /\ pc = "parsed"
    /\ \E t \in Targets, opened \in BOOLEAN :
          /\ target' = t
          /\ IF opened
             THEN /\ file' = [file EXCEPT !.opened = TRUE]
                  /\ pc' = "emit"
                  /\ cur' = flie
                  /\ UNCHANGED << stderr, exitcode >>
             ELSE /\ stderr' = Append(stderr, "error: Failed to open %s for %s: %s\n")
                  /\ exitcode' = 1
                  /\ pc' = "exited"
                  /\ UNCHANGED << file, cur >>
    /\ UNCHANGED << src, pos, heap, block, unclosed, flie, layer, loops, arg, res >>

EmitState(at) == [block |-> cur, layer |-> layer, loops |-> loops, file |-> file, at |-> at]

\* The number of writes a step of emit_code makes when none fails.
WritesOf(e) ==
    EmitStepOf(heap, [e EXCEPT !.file.budget = -1], target).file.count - e.file.count

\* What the sink may do during a step of emit_code from state e: fail at
\* the step's write number b + 1 (b = -1: at none of them), keeping tn
\* atoms of the failing write.
SinkChoices(e) ==
    { << -1, 0 >> } \cup ((0 .. (WritesOf(e) - 1)) \X (0 .. (Len(LinuxHead) - 1)))

\* The program after a step of emit_code that led to state e.
EmitTo(e) ==
    /\ cur' = e.block
    /\ layer' = e.layer
    /\ loops' = e.loops
    /\ file' = IF e.file.failed THEN e.file ELSE [e.file EXCEPT !.budget = -1, !.torn = 0]
    /\ IF e.at = "error"
       THEN /\ stderr' = Append(stderr, "failed to write to %s: %s")
            /\ exitcode' = 1
            /\ pc' = "exited"
       ELSE IF e.at = "ok"
       THEN /\ exitcode' = 0        \* fclose(output); return 0
            /\ pc' = "exited"
            /\ stderr' = stderr
       ELSE IF e.at = "abort"
       THEN /\ stderr' = Append(stderr, "Assertion `layer == 0' failed.")
            /\ exitcode' = SIGABRT_STATUS
            /\ pc' = "aborted"
       ELSE /\ pc' = "emit_" \o e.at
            /\ UNCHANGED << stderr, exitcode >>
    /\ UNCHANGED << src, pos, heap, block, unclosed, flie, target, arg, res >>

SinkChoice(e, b, tn) == [e EXCEPT !.file.budget = b, !.file.torn = tn]

EmitBegin ==
    /\ pc = "emit"
    /\ \E c \in SinkChoices(EmitState("head")) :
          EmitTo(EmitBeginOf(SinkChoice(EmitState("head"), c[1], c[2]), target))

EmitIter ==
    /\ pc = "emit_loop"
    /\ \E c \in SinkChoices(EmitState("loop")) :
          EmitTo(EmitIterOf(heap, SinkChoice(EmitState("loop"), c[1], c[2]), target))

EmitEnd ==
    /\ pc = "emit_tail"
    /\ \E c \in SinkChoices(EmitState("tail")) :
          EmitTo(EmitEndOf(SinkChoice(EmitState("tail"), c[1], c[2]), target))

(***************************************************************************)
(* Function-level checks: the program itself stays idle, an input is       *)
(* drawn into `arg` and the functions of the program are applied to it,    *)
(* the result going to `res`.                                              *)
(***************************************************************************)
Idle ==
    /\ src = << >>
    /\ pos = 1
    /\ heap = ParseStart.heap
    /\ block = ParseStart.block
    /\ unclosed = ParseStart.unclosed
    /\ pc = "idle"
    /\ flie = NULL
    /\ stderr = << >>
    /\ exitcode = -1
    /\ target = TARGET_NOT_SELECTED
    /\ cur = NULL
    /\ layer = 0
    /\ loops = << >>
    /\ file = NoFile

\* k times the character ch.
Rep(ch, k) == [i \in 1 .. k |-> ch]

\* The modulus of the family of ch: cells wrap at 256, the pointer at
\* BF_MEMORY_SIZE.
Modulus(ch) == IF ch \in {"+", "-"} THEN UINT8_MAX + 1 ELSE BF_MEMORY_SIZE

\* The run lengths within RunSlack of 0, of half the modulus m and of m.
IsCritical(k, m) ==
    /\ k >= 0
    /\ k <= m + RunSlack
    /\ \/ k <= RunSlack
       \/ (k >= m \div 2 - RunSlack /\ k <= m \div 2 + RunSlack)
       \/ k >= m - RunSlack

Critical(m) == { k \in 0 .. (m + RunSlack) : IsCritical(k, m) }

\* A fresh, opened sink that never fails.
GoodFile == [NoFile EXCEPT !.opened = TRUE]

(***************************************************************************)
(* Rendering one op for the bf target: every Increment and every Shift     *)
(* the parser can build.                                                   *)
(***************************************************************************)
InitRender ==
    /\ Idle
    /\ arg \in { Op(OP_TAG_INC, v) : v \in 1 .. UINT8_MAX }
              \cup { Op(OP_TAG_SHIFT, d) : d \in 1 .. (BF_MEMORY_SIZE - 1) }
    /\ res = None

Render ==
    /\ ~res.done
    /\ res' = [done |-> TRUE, text |-> emit_op(arg, 0, GoodFile, TARGET_BF).file.text]
    /\ UNCHANGED << prog, arg >>

SpecRender == InitRender /\ [][Render]_vars

(***************************************************************************)
(* The round trip: parse a source, emit the bf target, parse the text.     *)
(* The sources are the short ones and, inside a few frames, the runs of    *)
(* critical length.                                                        *)
(***************************************************************************)
TripFrames ==
    { << << >>, << >> >>,
      << << "[" >>, << "]" >> >>,
      << << ".", "[", "[" >>, << "]", ",", "]" >> >>,
      << << "[", "]" >>, << "[", "]" >> >>,
      << << ">" >>, << "+" >> >>,
      << << "-" >>, << "<" >> >> }

TripSources ==
    Strings(Commands, MaxTrip)
    \cup { fr[1] \o Rep(ch, k) \o fr[2] :
              fr \in TripFrames, ch \in {"+", "-", "<", ">"},
              k \in Critical(BF_MEMORY_SIZE) \cup Critical(UINT8_MAX + 1) }

InitTrip ==
    /\ Idle
    /\ arg \in TripSources
    /\ res = None

Trip ==
    /\ ~res.done
    /\ LET first == Parse(arg)
           out == IF first.crashed THEN EmitStart(1, GoodFile)
                  ELSE emit_code(first.heap, 1, GoodFile, TARGET_BF)
       IN res' = [done |-> TRUE, first |-> first, out |-> out,
                  second |-> IF first.crashed THEN first ELSE Parse(out.file.text)]
    /\ UNCHANGED << prog, arg >>

SpecTrip == InitTrip /\ [][Trip]_vars

(***************************************************************************)
(* Runs: after a prefix, parse is fed a run of one character (c1, k1       *)
(* times), the ops of the block being recorded after every character.      *)
(* From a run of critical length parse may go on with the opposite         *)
(* character (the run turns), and after a run that cancelled with one more *)
(* character, fed as well to a parse `q` that saw the prefix only.  After  *)
(* the longest run a second parse starts over from the prefix with the     *)
(* opposite character.                                                     *)
(***************************************************************************)
RunPrefixes ==
    { << >>, << "+" >>, << "-" >>, << ">" >>, << "<" >>, << "." >>, << "[" >>,
      << "[", "]" >>, << "+", ">" >>, << "<", "-" >> }

RunChars == {"+", "-", ">", "<"}

Opposite(ch) ==
    CASE ch = "+" -> "-" [] ch = "-" -> "+" [] ch = ">" -> "<" [] ch = "<" -> ">"

MaxRun(ch) == Modulus(ch) + RunSlack

\* The ops of the block parse is filling.
CurOps(p) == p.heap[p.block].ops

InitRun ==
    /\ Idle
    /\ \E pre \in RunPrefixes :
          arg = [pre |-> pre, base |-> ParseFrom(ParseStart, pre)]
    /\ \E ch \in RunChars :
          res = [done |-> FALSE, mode |-> "first", c1 |-> ch, k1 |-> 0,
                 c2 |-> Opposite(ch), k2 |-> 0, p |-> arg.base, q |-> arg.base,
                 hist |-> << CurOps(arg.base) >>]

RunFirst ==
    /\ res.mode = "first"
    /\ res.k1 < MaxRun(res.c1)
    /\ LET p == ParseChar(res.p, res.c1)
       IN res' = [res EXCEPT !.p = p, !.k1 = @ + 1, !.hist = Append(@, CurOps(p))]
    /\ UNCHANGED << prog, arg >>

RunTurn ==
    /\ res.mode = "first"
    /\ res.k1 > 0
    /\ IsCritical(res.k1, Modulus(res.c1))
    /\ res' = [res EXCEPT !.mode = "turned", !.hist = << >>]
    /\ UNCHANGED << prog, arg >>

RunRestart ==
    /\ res.mode = "first"
    /\ res.k1 = MaxRun(res.c1)
    /\ res' = [res EXCEPT !.mode = "second", !.p = arg.base]
    /\ UNCHANGED << prog, arg >>

RunSecond ==
    /\ res.mode \in {"turned", "second"}
    /\ res.k2 < MaxRun(res.c2)
    /\ res' = [res EXCEPT !.p = ParseChar(@, res.c2), !.k2 = @ + 1]
    /\ UNCHANGED << prog, arg >>

\* The number of characters of the run parse `p` has consumed, and their
\* net effect, counted forward ('+' or '>').
RunLen == IF res.mode = "second" THEN res.k2 ELSE res.k1 + res.k2

Forward(ch, k) == IF ch \in {"+", ">"} THEN k ELSE (Modulus(ch) - 1) * k

RunNet ==
    IF res.mode = "second" THEN Forward(res.c2, res.k2) % Modulus(res.c2)
    ELSE (Forward(res.c1, res.k1) + Forward(res.c2, res.k2)) % Modulus(res.c1)

RunAfter ==
    /\ res.mode \in {"first", "turned"}
    /\ RunLen > 0
    /\ RunNet = 0
    /\ \E ch \in Commands :
          /\ ~ParseChar(res.q, ch).crashed
          /\ res' = [res EXCEPT !.mode = "after", !.hist = << >>,
                                !.p = ParseChar(@, ch), !.q = ParseChar(@, ch)]
    /\ UNCHANGED << prog, arg >>

NextRun == RunFirst \/ RunTurn \/ RunRestart \/ RunSecond \/ RunAfter

SpecRun == InitRun /\ [][NextRun]_vars

(***************************************************************************)
(* The input file.  main opens it in binary mode, read_entire_file copies  *)
(* all its bytes into a buffer and puts a zero byte after them, and        *)
(* parse's loop runs up to the first zero byte of the buffer.  The bytes   *)
(* of the file are the characters of Chars and the zero byte.              *)
(***************************************************************************)
NUL == "NUL"

FileChars == Chars \cup {NUL}

read_entire_file(bytes) == Append(bytes, NUL)

\* The characters parse's loop visits in a buffer: those before its first
\* zero byte.
CString(buf) ==
    LET zeros == { i \in 1 .. Len(buf) : buf[i] = NUL }
        first == CHOOSE i \in zeros : \A j \in zeros : i <= j
    IN SubSeq(buf, 1, first - 1)

InitFile ==
    /\ Idle
    /\ arg \in Strings(FileChars, MaxFile)
    /\ res = None

ReadAndParse ==
    /\ ~res.done
    /\ LET string == read_entire_file(arg)
       IN res' = [done |-> TRUE, string |-> string, flie |-> Parse(CString(string))]
    /\ UNCHANGED << prog, arg >>

SpecFile == InitFile /\ [][ReadAndParse]_vars

(***************************************************************************)
(* The traversal of emit_code on its own: a program parse returned is      *)
(* emitted for a target into a sink that takes every write, one iteration  *)
(* of the while loop at a time.  The function is sequential: as long as it *)
(* has a next step it takes it.                                            *)
(***************************************************************************)
TraverseSources ==
    { s \in Strings({"[", "]", "+", "."}, MaxTrav) : ~Parse(s).crashed }

\* Nothing has been given to emit_code yet; `arg` holds the sources whose
\* program it may be given.
InitTraverse ==
    /\ Idle
    /\ arg = [done |-> FALSE, sources |-> TraverseSources]
    /\ res = None

\* main calls emit_code with a program and a target.
TraverseCall ==
    /\ ~arg.done
    /\ \E s \in arg.sources, t \in Targets :
          /\ arg' = [done |-> TRUE, src |-> s, target |-> t]
          /\ res' = [done |-> FALSE, heap |-> Parse(s).heap, e |-> EmitStart(1, GoodFile)]
    /\ UNCHANGED prog

TraverseStep ==
    /\ arg.done
    /\ res.e.at \notin {"ok", "error", "abort"}
    /\ \E e \in { EmitStepOf(res.heap, res.e, arg.target) } :
          res' = [res EXCEPT !.e = e, !.done = e.at = "ok"]
    /\ UNCHANGED << prog, arg >>

NextTraverse == TraverseCall \/ TraverseStep

SpecTraverse == InitTraverse /\ [][NextTraverse]_vars /\ WF_vars(TraverseStep)

(***************************************************************************)
(* Vocabulary of the properties.                                           *)
(***************************************************************************)
\* The number of occurrences of ch among the first n characters of s.
RECURSIVE Count(_, _, _)
Count(s, ch, n) ==
    IF n = 0 THEN 0 ELSE Count(s, ch, n - 1) + (IF s[n] = ch THEN 1 ELSE 0)

\* Some ']' of s has no open '[' before it.
UnmatchedClose(s) == \E n \in 1 .. Len(s) : Count(s, "]", n) > Count(s, "[", n)

\* No ']' of s is unmatched and a '[' is left open at the end of s.
UnmatchedOpen(s) ==
    /\ ~UnmatchedClose(s)
    /\ Count(s, "[", Len(s)) > Count(s, "]", Len(s))

\* The brackets of s are balanced and properly nested.
Balanced(s) ==
    /\ \A n \in 0 .. Len(s) : Count(s, "[", n) >= Count(s, "]", n)
    /\ Count(s, "[", Len(s)) = Count(s, "]", Len(s))

IsPrefix(a, b) == Len(a) <= Len(b) /\ SubSeq(b, 1, Len(a)) = a

\* The characters of the source parse has consumed.
Consumed == SubSeq(src, 1, pos - 1)

\* The ',' and '.' characters of s, in order.
IOChars(s) == SelectSeq(s, LAMBDA ch : ch \in {",", "."})

\* The Read and Write ops of the blocks b..Len(h) of h, as ',' and '.', in
\* block order and, within a block, op order.
RECURSIVE IOOps(_, _)
IOOps(h, b) ==
    IF b > Len(h) THEN << >>
    ELSE LET io == SelectSeq(h[b].ops, LAMBDA op : op.tag \in {OP_TAG_READ, OP_TAG_WRITE})
         IN [i \in 1 .. Len(io) |-> IF io[i].tag = OP_TAG_READ THEN "," ELSE "."]
            \o IOOps(h, b + 1)

\* What the caller of the program sees of a failed build of source s.
FailureOf(s) ==
    IF Parse(s).crashed THEN << << crash_bad_bf.message >>, crash_bad_bf.status >>
    ELSE << << >>, 0 >>

(***************************************************************************)
(* C1.  parse succeeds and returns a program if and only if the brackets   *)
(* of the source are balanced and properly nested; for every other source  *)
(* the build fails with the malformed-program error (crash_bad_bf) and no  *)
(* program is returned.                                                    *)
(***************************************************************************)
C1_ParseSucceedsIffBalanced ==
    /\ pc = "crashed" =>
          /\ ~Balanced(src)
          /\ flie = NULL
          /\ stderr = << BadBfMessage >>
          /\ exitcode = 1
    /\ pc = "parsed" =>
          /\ Balanced(src)
          /\ flie = 1
          /\ ~Parse(src).crashed
          /\ Parse(src).heap = heap
    /\ pc = "parse" => flie = NULL /\ Balanced(Consumed) = (unclosed = << >>)

\* A source with nested loops has been parsed.
C1_Witness == pc = "parsed" /\ src = << "[", "[", "]", "]" >> /\ Len(heap) = 5

(***************************************************************************)
(* C2.  The failure reported for an unbalanced source identifies its       *)
(* sub-kind: the outcome of a source with a ']' that has no open '['       *)
(* differs, for the caller, from the outcome of a source that leaves a     *)
(* '[' open (such as '[[+]').                                              *)
(***************************************************************************)
C2_SubKindDistinguishable ==
    (pc = "crashed" /\ UnmatchedClose(src)) =>
        << stderr, exitcode >> # FailureOf(<< "[", "[", "+", "]" >>)

(***************************************************************************)
(* C3.  Round trip: for every balanced source S without comment            *)
(* characters, emitting the bf target from parse(S) succeeds and parse of  *)
(* the emitted text yields the IR of parse(S): the same blocks with the    *)
(* same next/exit links and the same ops with the same values.             *)
(***************************************************************************)
C3_RoundTrip ==
    (res.done /\ ~res.first.crashed) =>
        /\ res.out.at = "ok"
        /\ ~res.second.crashed
        /\ res.second.heap = res.first.heap

\* A loop holding a Shift of half the memory size made the round trip.
C3_Witness ==
    /\ res.done
    /\ arg = << "[" >> \o Rep(">", BF_MEMORY_SIZE \div 2) \o << "]" >>
    /\ res.first.heap[2].ops = << Op(OP_TAG_SHIFT, BF_MEMORY_SIZE \div 2) >>
    /\ Len(res.out.file.text) = 2 + 4 + BF_MEMORY_SIZE \div 2 + 1 + 2
    /\ res.second.heap = res.first.heap

(***************************************************************************)
(* C6.  Coalescing idempotence: after any prefix, two runs of one          *)
(* character each with the same net effect modulo 256 (modulo the memory   *)
(* size for shifts) leave parse in the same state: the same blocks, links, *)
(* ops and values.  Every run of one character is compared with the runs   *)
(* of the same character one modulus shorter and with the runs of the      *)
(* opposite character.                                                     *)
(***************************************************************************)
\* The lengths k of a recorded run of c1 with the net effect of the run
\* parse `p` has consumed.
RunEquals ==
    LET m == Modulus(res.c1)
        n == IF res.mode = "second" THEN (m - (res.k2 % m)) % m ELSE res.k1 % m
    IN { k \in {n, n + m} : k <= MaxRun(res.c1) /\ k + 1 <= Len(res.hist) }

\* A run changes the ops of the block being filled and nothing else.
RunFrame ==
    [res.p EXCEPT !.heap[res.p.block].ops = << >>]
        = [arg.base EXCEPT !.heap[arg.base.block].ops = << >>]

C6_EqualRunsSameIR ==
    res.mode \in {"first", "second"} =>
        /\ RunFrame
        /\ \A k \in RunEquals : CurOps(res.p) = res.hist[k + 1]

\* After a loop was opened 56 '-' gave the Increment that 200 '+' had given.
C6_Witness ==
    /\ res.mode = "second"
    /\ arg.pre = << "[" >>
    /\ res.c2 = "-"
    /\ res.k2 = 56
    /\ 200 \in RunEquals
    /\ res.hist[200 + 1] = << Op(OP_TAG_INC, 200) >>
    /\ res.p.heap[2].ops = << Op(OP_TAG_INC, 200) >>

(***************************************************************************)
(* C7.  Zero-cancellation: a run of '+' and '-' whose net sum is 0 mod     *)
(* 256, or a run of '<' and '>' whose net displacement is 0 mod the memory *)
(* size, adds no operation: after the run the block's ops, and the whole   *)
(* parse state, are what they were before the run, and a character after   *)
(* the run is treated as if it came right after the prefix.                *)
(***************************************************************************)
C7_ZeroCancellation ==
    /\ (res.mode \in {"first", "turned"} /\ RunLen > 0 /\ RunNet = 0) =>
          /\ CurOps(res.p) = CurOps(arg.base)
          /\ res.p = arg.base
    /\ res.mode = "after" => res.p = res.q

\* After "<-" a run of 128 '+' and 128 '-' cancelled, having removed and
\* rebuilt the Increment of the prefix on its way, and the '+' after it
\* removed that Increment, leaving the Shift alone.
C7_Witness ==
    /\ res.mode = "after"
    /\ arg.pre = << "<", "-" >>
    /\ res.c1 = "+"
    /\ res.k1 = 128
    /\ res.k2 = 128
    /\ CurOps(res.p) = << Op(OP_TAG_SHIFT, BF_MEMORY_SIZE - 1) >>
    /\ res.q = res.p

(***************************************************************************)
(* C9, as claimed.  For the bf target an Increment(v) is rendered as       *)
(* min(v, 256-v) characters, '+' when v is at most half the modulus (128)  *)
(* and '-' otherwise, and a Shift(d) as min(d, BF_MEMORY_SIZE-d)           *)
(* characters, '>' when d is at most half the memory size and '<'          *)
(* otherwise; the rendered run has the net effect of the op.               *)
(***************************************************************************)
\* The line of n characters ch.
Line(ch, n) == Append(Rep(ch, n), "\n")

C9_ShortestPathHalf ==
    res.done =>
        LET m == Modulus(IF arg.tag = OP_TAG_INC THEN "+" ELSE ">")
            up == IF arg.tag = OP_TAG_INC THEN "+" ELSE ">"
            down == IF arg.tag = OP_TAG_INC THEN "-" ELSE "<"
        IN res.text = IF arg.value <= m \div 2 THEN Line(up, arg.value)
                 ELSE Line(down, m - arg.value)

(***************************************************************************)
(* C9, amended.  For the bf target an Increment(v) is rendered as          *)
(* min(v, 256-v) characters, '+' when v is at most 127 and '-' otherwise   *)
(* (Increment(128) gives 128 '-', Increment(200) gives 56 '-'), and a      *)
(* Shift(d) as min(d, BF_MEMORY_SIZE-d) characters, '>' when d is at most  *)
(* half the memory size and '<' otherwise (Shift(BF_MEMORY_SIZE-1) gives   *)
(* a single '<'); the rendered run has the net effect of the op modulo     *)
(* its modulus.                                                            *)
(***************************************************************************)
C9_ShortestPath ==
    res.done =>
        LET inc == arg.tag = OP_TAG_INC
            m == IF inc THEN 256 ELSE BF_MEMORY_SIZE
            up == IF inc THEN "+" ELSE ">"
            down == IF inc THEN "-" ELSE "<"
            forward == IF inc THEN arg.value <= 127 ELSE arg.value <= BF_MEMORY_SIZE \div 2
            ups == Len(SelectSeq(res.text, LAMBDA ch : ch = up))
            downs == Len(SelectSeq(res.text, LAMBDA ch : ch = down))
        IN /\ res.text = IF forward THEN Line(up, arg.value) ELSE Line(down, m - arg.value)
           /\ Len(res.text) - 1 = Min(arg.value, m - arg.value)
           /\ (ups + (m - 1) * downs) % m = arg.value
           /\ arg = Op(OP_TAG_INC, 200) => res.text = Line("-", 56)
           /\ arg = Op(OP_TAG_SHIFT, BF_MEMORY_SIZE - 1) => res.text = << "<", "\n" >>

\* Increment(200) was rendered as 56 '-'.
C9_Witness ==
    /\ arg = Op(OP_TAG_INC, 200)
    /\ res.done
    /\ Len(res.text) = 57
    /\ res.text[1] = "-"

(***************************************************************************)
(* C4, as claimed.  In every block, at every moment of the build and in    *)
(* the finished program, no two adjacent operations have the same tag.     *)
(***************************************************************************)
C4_NoAdjacentSameTag ==
    \A b \in 1 .. Len(heap) : \A i \in 1 .. (Len(heap[b].ops) - 1) :
        heap[b].ops[i].tag # heap[b].ops[i + 1].tag

(***************************************************************************)
(* C4, amended.  In every block, at every moment of the build and in the   *)
(* finished program, no two adjacent operations are both Increment or      *)
(* both Shift: two adjacent operations with the same tag are two Reads or  *)
(* two Writes.                                                             *)
(***************************************************************************)
C4_NoAdjacentIncOrShift ==
    \A b \in 1 .. Len(heap) : \A i \in 1 .. (Len(heap[b].ops) - 1) :
        heap[b].ops[i].tag = heap[b].ops[i + 1].tag =>
            heap[b].ops[i].tag \in {OP_TAG_READ, OP_TAG_WRITE}

\* Two Shifts were merged next to two merged Increments.
C4_Witness ==
    /\ pc = "parsed"
    /\ src = << "+", "+", ">", ">" >>
    /\ heap[1].ops = << Op(OP_TAG_INC, 2), Op(OP_TAG_SHIFT, 2) >>

(***************************************************************************)
(* C5.  No zero-valued operation is ever kept: at every moment of the      *)
(* build and in the finished program every Increment has a delta in        *)
(* 1..255 and every Shift a distance in 1..BF_MEMORY_SIZE-1; when the      *)
(* character just consumed brings the delta of the last Increment to 0     *)
(* mod 256, or the distance of the last Shift to 0 mod BF_MEMORY_SIZE,     *)
(* that operation is removed from the block.                               *)
(***************************************************************************)
C5_NoZeroOpKept ==
    /\ \A b \in 1 .. Len(heap) : \A i \in 1 .. Len(heap[b].ops) :
          LET op == heap[b].ops[i]
          IN /\ op.tag = OP_TAG_INC => op.value \in 1 .. 255
             /\ op.tag = OP_TAG_SHIFT => op.value \in 1 .. (BF_MEMORY_SIZE - 1)
    /\ (pos > 1 /\ pc \in {"parse", "crashed", "parsed"}) =>
          LET before == ParseFrom(ParseStart, SubSeq(src, 1, pos - 2))
              ops0 == before.heap[before.block].ops
              ch == src[pos - 1]
              modulus == IF ch \in {"+", "-"} THEN 256 ELSE BF_MEMORY_SIZE
              tag == IF ch \in {"+", "-"} THEN OP_TAG_INC ELSE OP_TAG_SHIFT
          IN (/\ ch \in {"+", "-", "<", ">"}
              /\ ops0 # << >>
              /\ ops0[Len(ops0)].tag = tag
              /\ (ops0[Len(ops0)].value + OpOfChar(ch).value) % modulus = 0)
             => /\ block = before.block
                /\ heap[block].ops = SubSeq(ops0, 1, Len(ops0) - 1)

\* A Shift and an Increment were both removed from the root block.
C5_Witness ==
    /\ pc = "parsed"
    /\ src = << ">", "+", "-", "<" >>
    /\ heap[1].ops = << >>

(***************************************************************************)
(* C8.  Read and Write operations are never merged or dropped: the Read    *)
(* and Write ops of the blocks, in block and op order, are the ',' and     *)
(* '.' characters of the source consumed so far, in source order; n        *)
(* consecutive ',' (or '.') are n separate ops.                            *)
(***************************************************************************)
C8_ReadWriteKept ==
    pc \in {"parse", "crashed", "parsed"} => IOOps(heap, 1) = IOChars(Consumed)

\* Two Reads and two Writes in a row are four ops.
C8_Witness ==
    /\ pc = "parsed"
    /\ src = << ",", ",", ".", "." >>
    /\ Len(heap[1].ops) = 4

(***************************************************************************)
(* C10.  If a write to the sink fails at any point of emit_code, no        *)
(* further write is attempted, emit_code returns failure (the program      *)
(* ends with status 1), and the text written before the failure is left    *)
(* in the sink: it holds everything the writes before the failing one      *)
(* wrote, and nothing but a part of the failing write after it.            *)
(***************************************************************************)
\* emit_code on a fresh sink that fails at its write number n + 1 (n = -1:
\* never), and keeps nothing of the failing write.
Reference(n) ==
    emit_code(heap, flie, [NoFile EXCEPT !.opened = TRUE, !.budget = n], target)

C10_Inv ==
    /\ file.late = 0
    /\ file.failed =>
          /\ pc = "exited"
          /\ exitcode = 1
          /\ LET before == Reference(file.count - 1).file.text
                 with == Reference(file.count).file.text
             IN /\ IsPrefix(before, file.text)
                /\ IsPrefix(file.text, with)
                /\ Len(file.text) < Len(with)

C10_WriteFailureStops ==
    /\ [] C10_Inv
    /\ [][IsPrefix(file.text, file'.text)]_vars

\* A write of the body failed after the loop-open form had been written.
C10_Witness ==
    /\ file.failed
    /\ target = TARGET_BF
    /\ src = << "[", "+", "]" >>
    /\ file.text = << "[", "\n", " ", " " >>

(***************************************************************************)
(* Vocabulary of the emitted bf text.  A line ends at a "\n"; it is named  *)
(* by the index of that "\n".                                              *)
(***************************************************************************)
\* The program has ended with status 0 having emitted target t.
Emitted(t) == pc = "exited" /\ exitcode = 0 /\ target = t

LineEnds(text) == { e \in 1 .. Len(text) : text[e] = "\n" }

\* The characters of the line that ends at e.
LineOf(text, e) ==
    LET before == { i \in LineEnds(text) : i < e }
        start == IF before = { } THEN 1
                 ELSE 1 + (CHOOSE i \in before : \A j \in before : j <= i)
    IN SubSeq(text, start, e - 1)

\* The number of leading spaces of a line, and the line without them.
Indent(line) ==
    Cardinality({ n \in 1 .. Len(line) : \A i \in 1 .. n : line[i] = " " })

Body(line) == SubSeq(line, Indent(line) + 1, Len(line))

\* One op rendering or one bracket.
OneForm(body) ==
    /\ body # << >>
    /\ \/ (Len(body) = 1 /\ body[1] \in {",", ".", "[", "]"})
       \/ \E ch \in {"+", "-", "<", ">"} : \A i \in 1 .. Len(body) : body[i] = ch

\* The number of loops open around the line that ends at e: the '[' lines
\* before it less the ']' lines up to it.
DepthAt(text, e) ==
    Cardinality({ i \in LineEnds(text) : i < e /\ Body(LineOf(text, i)) = << "[" >> })
    - Cardinality({ i \in LineEnds(text) : i <= e /\ Body(LineOf(text, i)) = << "]" >> })

\* The number of ops and of loop headers of a heap.
RECURSIVE OpCount(_, _)
OpCount(h, b) == IF b > Len(h) THEN 0 ELSE Len(h[b].ops) + OpCount(h, b + 1)

Headers(h) == { b \in 1 .. Len(h) : h[b].exit # NULL }

(***************************************************************************)
(* C11.  In the bf target every emitted line holds exactly one op          *)
(* rendering or one bracket and is indented by four spaces per enclosing   *)
(* loop: an op inside d loops has 4*d leading spaces, and the '[' line and *)
(* the ']' line of a loop inside d loops both have 4*d leading spaces.     *)
(* There is one line per op and two per loop.                              *)
(***************************************************************************)
C11_OneFormPerLineIndented ==
    Emitted(TARGET_BF) =>
        /\ file.text # << >> => file.text[Len(file.text)] = "\n"
        /\ Cardinality(LineEnds(file.text))
              = OpCount(heap, 1) + 2 * Cardinality(Headers(heap))
        /\ \A e \in LineEnds(file.text) :
              LET line == LineOf(file.text, e)
              IN /\ OneForm(Body(line))
                 /\ Indent(line) = 4 * DepthAt(file.text, e)

\* A loop in a loop: the inner brackets are four spaces in.
C11_Witness ==
    /\ Emitted(TARGET_BF)
    /\ src = << "[", "[", "]", "]" >>
    /\ file.text = << "[", "\n",
                      " ", " ", " ", " ", "[", "\n",
                      " ", " ", " ", " ", "]", "\n",
                      "]", "\n" >>

(***************************************************************************)
(* Vocabulary of the brackets of a source.                                 *)
(***************************************************************************)
\* The number of ch among s[i..j].
CountIn(s, ch, i, j) == Count(s, ch, j) - Count(s, ch, i - 1)

\* The ']' that closes the '[' at position i of s (0: none does).
MatchOf(s, i) ==
    LET closing == { j \in (i + 1) .. Len(s) :
                        s[j] = "]" /\ CountIn(s, "[", i, j) = CountIn(s, "]", i, j) }
    IN IF closing = { } THEN 0 ELSE CHOOSE j \in closing : \A k \in closing : j <= k

\* The block parse is filling after the first i characters of s: blocks
\* are allocated one per bracket, in source order, after the root.
BlockAt(s, i) == 1 + Count(s, "[", i) + Count(s, "]", i)

\* The number of loops open around position i of s.
NestingAt(s, i) == Count(s, "[", i - 1) - Count(s, "]", i - 1)

\* The '[' of s whose loop has a body with no bracket that, parsed on its
\* own, leaves no op.
EmptyLoops(s) ==
    { i \in 1 .. Len(s) :
        /\ s[i] = "["
        /\ MatchOf(s, i) # 0
        /\ LET body == SubSeq(s, i + 1, MatchOf(s, i) - 1)
           IN /\ \A k \in 1 .. Len(body) : body[k] \notin {"[", "]"}
              /\ ParseFrom(ParseStart, body).heap[1].ops = << >> }

Spaces(n) == [i \in 1 .. n |-> " "]

\* The open form of loop header b followed at once by its close form.
OpenThenClose(b, depth, t) ==
    IF t = TARGET_BF
    THEN Spaces(4 * depth) \o << "[", "\n" >> \o Spaces(4 * depth) \o << "]", "\n" >>
    ELSE << ".loop_" \o ToString(b) \o ":", "cmp byte [mem + esi], 0",
            "je .end_" \o ToString(b), "jmp .loop_" \o ToString(b),
            ".end_" \o ToString(b) \o ":" >>

\* sub is in text from index i on.
OccursAt(text, sub, i) ==
    i + Len(sub) - 1 <= Len(text) /\ SubSeq(text, i, i + Len(sub) - 1) = sub

(***************************************************************************)
(* C12.  An empty loop body, or a loop whose whole content coalesces away  *)
(* ('[]', '[+-]', '[><]'), builds into a loop header with no ops and an    *)
(* exit link, and a successful emission in each of the three targets       *)
(* writes that loop's open form immediately followed by its close form.    *)
(***************************************************************************)
C12_EmptyLoopEmitted ==
    (pc = "parsed" \/ (pc = "exited" /\ exitcode = 0)) =>
        \A i \in EmptyLoops(src) :
            LET b == BlockAt(src, i)
            IN /\ heap[b] = [next |-> NULL, exit |-> b + 1, ops |-> << >>]
               /\ pc = "exited" =>
                     \E k \in 1 .. Len(file.text) :
                        /\ OccursAt(file.text, OpenThenClose(b, NestingAt(src, i), target), k)
                        /\ (target = TARGET_BF /\ k > 1) => file.text[k - 1] = "\n"

\* '[+-]' went out for linux as a guarded block with nothing between the
\* guard and the jump back.
C12_Witness ==
    /\ Emitted(TARGET_NASM_LINUX)
    /\ src = << "[", "+", "-", "]" >>
    /\ heap[2] = [next |-> NULL, exit |-> 3, ops |-> << >>]
    /\ OccursAt(file.text,
                << ".loop_2:", "cmp byte [mem + esi], 0", "je .end_2",
                   "jmp .loop_2", ".end_2:" >>, Len(LinuxHead) + 1)

(***************************************************************************)
(* C13.  Characters other than the eight command characters are ignored:   *)
(* parse builds the same IR, or fails alike, for the source in a file and  *)
(* for that source with all such characters removed, also when they stand  *)
(* between two characters of a '+'/'-' or '<'/'>' run.                     *)
(***************************************************************************)
\* s without the characters that are not commands.
Strip(s) == SelectSeq(s, LAMBDA ch : ch \in Commands)

C13_OtherCharactersIgnored == res.done => res.flie = Parse(Strip(arg))

\* The same for the characters before the terminator of the string parse is
\* given: this part of C13 does hold, in every state of the build.
C13_CommentsInStringIgnored ==
    pc \in {"parse", "parsed"} =>
        [heap |-> heap, block |-> block, unclosed |-> unclosed]
            = LET p == ParseFrom(ParseStart, Strip(Consumed))
              IN [heap |-> p.heap, block |-> p.block, unclosed |-> p.unclosed]

(***************************************************************************)
(* C14.  For every program returned by parse and every target, emit_code's *)
(* traversal terminates: once emit_code has been called, its loop, which   *)
(* runs one iteration after the other, comes to `return 1`, and there the  *)
(* open-loop stack is empty and the depth counter is 0, so that the        *)
(* assertion layer == 0 at the end of emit_code has not failed.            *)
(***************************************************************************)
C14_TraversalTerminates ==
    arg.done ~> (res.done /\ res.e.at = "ok" /\ res.e.layer = 0 /\ res.e.loops = << >>)

\* The traversal of a loop in a loop, with ops at both depths, has ended.
\* With sinks that fail at any write as well, no run of the whole program
\* ends on the failed assertion.
C14_NeverAborts == pc # "aborted" /\ exitcode # SIGABRT_STATUS

C14_Witness ==
    /\ arg.done
    /\ arg.src = << "[", "+", "[", ".", "]", "]" >>
    /\ arg.target = TARGET_NASM_LIBC
    /\ res.done
    /\ res.e.block = 5
    /\ res.e.layer = 0
    /\ res.e.loops = << >>

(***************************************************************************)
(* The text of a program, read off its structure: a block that is no loop  *)
(* header gives its ops and then what its next link leads to; a loop       *)
(* header gives its open form, its ops and the rest of its body one loop   *)
(* further in, its close form, and then what its exit link leads to.       *)
(***************************************************************************)
\* What a renderer writes to a sink that takes every write.
TextOf(r) == r.file.text

RECURSIVE OpsText(_, _, _, _)
OpsText(ops, i, lay, t) ==
    IF i > Len(ops) THEN << >>
    ELSE TextOf(emit_op(ops[i], lay, GoodFile, t)) \o OpsText(ops, i + 1, lay, t)

RECURSIVE ChainText(_, _, _, _)
ChainText(h, b, lay, t) ==
    IF b = NULL THEN << >>
    ELSE IF h[b].exit = NULL
    THEN OpsText(h[b].ops, 1, lay, t) \o ChainText(h, h[b].next, lay, t)
    ELSE TextOf(emit_loop_head(b, lay, GoodFile, t))
         \o OpsText(h[b].ops, 1, lay + 1, t)
         \o ChainText(h, h[b].next, lay + 1, t)
         \o TextOf(emit_loop_tail(b, lay + 1, GoodFile, t))
         \o ChainText(h, h[b].exit, lay, t)

ProgramText(h, root, t) ==
    TextOf(emit_file_head(GoodFile, t))
    \o ChainText(h, root, 0, t)
    \o TextOf(emit_file_tail(GoodFile, t))

(***************************************************************************)
(* C15.  In a successful emission emit_code visits every block of the      *)
(* program exactly once: the iterations of its loop take the blocks one    *)
(* after the other in the order parse allocated them, from the root to the *)
(* last; each block's ops are rendered exactly once, in source order, and  *)
(* the open form and the close form of every loop header exactly once,     *)
(* the open form before the header's ops and the close form after the      *)
(* last block of its body: the text is the one read off the structure.     *)
(***************************************************************************)
C15_TextInv ==
    (pc = "exited" /\ exitcode = 0) => file.text = ProgramText(heap, flie, target)

C15_VisitStep ==
    /\ (pc = "emit" /\ pc' = "emit_loop") => cur' = flie
    /\ (pc = "emit_loop" /\ pc' = "emit_loop") => cur' = cur + 1
    /\ (pc = "emit_loop" /\ pc' = "emit_tail") => cur = Len(heap)

C15_EveryBlockOnce ==
    /\ [] C15_TextInv
    /\ [][C15_VisitStep]_vars

\* '+[.]' went out for bf: an op, the open form, the op of the body one
\* loop in, the close form.
C15_Witness ==
    /\ Emitted(TARGET_BF)
    /\ src = << "+", "[", ".", "]" >>
    /\ cur = 3
    /\ file.text = << "+", "\n", "[", "\n", " ", " ", " ", " ", ".", "\n", "]", "\n" >>

(***************************************************************************)
(* C16.  For every matched pair of '[' and ']' of a balanced source, the   *)
(* block allocated at the '[' has its exit link set to the block allocated *)
(* at its matching ']' and at no other, and in the finished program a      *)
(* block has an exit link if and only if it was allocated at a '['.        *)
(***************************************************************************)
C16_ExitIsMatchingClose ==
    pc = "parsed" =>
        /\ \A i \in 1 .. Len(src) :
              src[i] = "[" =>
                 /\ MatchOf(src, i) # 0
                 /\ heap[BlockAt(src, i)].exit = BlockAt(src, MatchOf(src, i))
        /\ \A b \in 1 .. Len(heap) :
              heap[b].exit # NULL <=> \E i \in 1 .. Len(src) : src[i] = "[" /\ BlockAt(src, i) = b

\* '[[]]': the outer loop exits to the block of the last ']', the inner one
\* to the block of the first.
C16_Witness ==
    /\ pc = "parsed"
    /\ src = << "[", "[", "]", "]" >>
    /\ heap[2].exit = 5
    /\ heap[3].exit = 4
    /\ heap[1].exit = NULL /\ heap[4].exit = NULL /\ heap[5].exit = NULL

(***************************************************************************)
(* Vocabulary of the links of a program.                                   *)
(***************************************************************************)
\* The links of heap h: << from, field, to >>.
Links(h) ==
    { << a, "next", h[a].next >> : a \in { a \in 1 .. Len(h) : h[a].next # NULL } }
    \cup { << a, "exit", h[a].exit >> : a \in { a \in 1 .. Len(h) : h[a].exit # NULL } }

\* The blocks one link away from a block of S.
Successors(h, S) == { l[3] : l \in { l \in Links(h) : l[1] \in S } }

\* The blocks reached from a block of S by n links or fewer, none counted
\* as zero links.
RECURSIVE ReachedWithin(_, _, _)
ReachedWithin(h, S, n) ==
    IF n = 0 THEN { }
    ELSE Successors(h, S) \cup ReachedWithin(h, Successors(h, S), n - 1)

\* The blocks reached from b by one link or more.
ReachedFrom(h, b) == ReachedWithin(h, {b}, Len(h))

(***************************************************************************)
(* C17.  In every program built by parse the next/exit links form a tree   *)
(* rooted at the entry block: the root is the target of no link, every     *)
(* other block is the target of exactly one next or exit link, every block *)
(* is reachable from the root, and no block is reachable from itself; the  *)
(* number of blocks is 1 plus the number of bracket characters of the      *)
(* source.                                                                 *)
(***************************************************************************)
C17_LinksFormTree ==
    pc = "parsed" =>
        /\ \A l \in Links(heap) : l[3] \in 1 .. Len(heap)
        /\ { l \in Links(heap) : l[3] = flie } = { }
        /\ \A b \in (1 .. Len(heap)) \ {flie} :
              Cardinality({ l \in Links(heap) : l[3] = b }) = 1
        /\ {flie} \cup ReachedFrom(heap, flie) = 1 .. Len(heap)
        /\ \A b \in 1 .. Len(heap) : b \notin ReachedFrom(heap, b)
        /\ Len(heap) = 1 + Count(src, "[", Len(src)) + Count(src, "]", Len(src))

\* '[[]]' with five blocks: the root, and one for each bracket.
C17_Witness ==
    /\ pc = "parsed"
    /\ src = << "[", "[", "]", "]" >>
    /\ Len(heap) = 5
    /\ Links(heap) = { << 1, "next", 2 >>, << 2, "next", 3 >>, << 3, "exit", 4 >>,
                       << 2, "exit", 5 >> }

(***************************************************************************)
(* Vocabulary of the emitted assembly text: its lines that define a label  *)
(* of block b and that branch to one.                                      *)
(***************************************************************************)
OpenLabel(b) == ".loop_" \o ToString(b) \o ":"
CloseLabel(b) == ".end_" \o ToString(b) \o ":"
GuardBranch(b) == "je .end_" \o ToString(b)
BackJump(b) == "jmp .loop_" \o ToString(b)

\* The indices of text that hold line.
LinesAt(text, line) == { i \in 1 .. Len(text) : text[i] = line }

(***************************************************************************)
(* C18.  In both assembly targets the emitted text defines, for every loop *)
(* header, its open label exactly once and its close label exactly once,   *)
(* the open label before the close label; the labels of distinct loop      *)
(* headers are distinct; the guard branch after a loop's open label        *)
(* targets that loop's close label and the jump before a loop's close      *)
(* label targets that loop's open label.  Blocks that are no loop header   *)
(* have no label and nothing branches to them.                             *)
(***************************************************************************)
C18_LabelsPaired ==
    (pc = "exited" /\ exitcode = 0 /\ target \in {TARGET_NASM_LIBC, TARGET_NASM_LINUX}) =>
        /\ \A b \in Headers(heap) :
              \E i, j \in 1 .. Len(file.text) :
                 /\ LinesAt(file.text, OpenLabel(b)) = {i}
                 /\ LinesAt(file.text, CloseLabel(b)) = {j}
                 /\ i < j
                 /\ LinesAt(file.text, GuardBranch(b)) = {i + 2}
                 /\ file.text[i + 1] = "cmp byte [mem + esi], 0"
                 /\ LinesAt(file.text, BackJump(b)) = {j - 1}
        /\ \A a, b \in Headers(heap) :
              a # b => {OpenLabel(a), CloseLabel(a)} \cap {OpenLabel(b), CloseLabel(b)} = { }
        /\ \A b \in (1 .. Len(heap)) \ Headers(heap) :
              \A line \in {OpenLabel(b), CloseLabel(b), GuardBranch(b), BackJump(b)} :
                 LinesAt(file.text, line) = { }

\* '[][]' for libc: two loops at the same depth, each with its own labels.
C18_Witness ==
    /\ Emitted(TARGET_NASM_LIBC)
    /\ src = << "[", "]", "[", "]" >>
    /\ SubSeq(file.text, Len(LibcHead) + 1, Len(LibcHead) + 10)
          = << ".loop_2:", "cmp byte [mem + esi], 0", "je .end_2", "jmp .loop_2", ".end_2:",
               ".loop_4:", "cmp byte [mem + esi], 0", "je .end_4", "jmp .loop_4", ".end_4:" >>

(***************************************************************************)
(* Vocabulary of the loops around a block.  A block lies where the bracket *)
(* that allocated it stands (the root: before the source); a loop encloses *)
(* what lies after its '[' and before its ']', so the block of a '[' is    *)
(* enclosed by the loops around that '[' and the block of a ']' by the     *)
(* loops around that ']'.                                                  *)
(***************************************************************************)
\* The position of the bracket of s at which block b was allocated.
BracketOf(s, b) ==
    IF b = 1 THEN 0
    ELSE CHOOSE i \in 1 .. Len(s) : s[i] \in {"[", "]"} /\ BlockAt(s, i) = b

\* The headers of the loops of s that enclose block b.
EnclosingHeaders(s, b) ==
    { BlockAt(s, i) : i \in { i \in 1 .. Len(s) :
                                /\ s[i] = "["
                                /\ i < BracketOf(s, b)
                                /\ BracketOf(s, b) < MatchOf(s, i) } }

\* The numbers of S, least first.  Headers are allocated in source order,
\* so the outermost of a set of nested loops is the least.
RECURSIVE Ascending(_)
Ascending(S) ==
    IF S = { } THEN << >>
    ELSE LET least == CHOOSE x \in S : \A y \in S : x <= y
         IN << least >> \o Ascending(S \ {least})

\* emit_code at line 566 of the iteration that starts in the current
\* state, when no write of the iteration fails.
BeforeAdvance ==
    EmitOps(heap, EmitEnter(heap, EmitState("loop"), target), target, 1)

(***************************************************************************)
(* C19.  At the start of every iteration of emit_code's traversal loop the *)
(* depth counter `layer` equals the number of entries on the open-loop     *)
(* stack, and the stack holds exactly the headers of the loops that        *)
(* enclose the current block, outermost first; hence emit_loop_tail is     *)
(* never called with layer 0, and blocks_pop is never called on an empty   *)
(* stack during emission: where the iteration comes to pop, the stack and  *)
(* the counter are not zero unless both are, and then the loop is left.    *)
(***************************************************************************)
C19_StackIsEnclosingLoops ==
    pc = "emit_loop" =>
        /\ layer = Len(loops)
        /\ loops = Ascending(EnclosingHeaders(src, cur))
        /\ heap[cur].next = NULL =>
              /\ BeforeAdvance.layer = Len(BeforeAdvance.loops)
              /\ BeforeAdvance.loops # << >> => BeforeAdvance.layer > 0
              /\ BeforeAdvance.loops = << >> =>
                    EmitAdvance(heap, BeforeAdvance, target).at = "tail"

\* '[[]]' at the start of the iteration of the inner header: the outer
\* header alone is on the stack.  The iteration pushes the inner header and
\* comes to the pop with two entries.
C19_Witness ==
    /\ pc = "emit_loop"
    /\ src = << "[", "[", "]", "]" >>
    /\ cur = 3
    /\ loops = << 2 >>
    /\ layer = 1
    /\ BeforeAdvance.loops = << 2, 3 >>
    /\ BeforeAdvance.layer = 2

(***************************************************************************)
(* The meaning of a source and of a program.  Both machines have a memory  *)
(* of BF_MEMORY_SIZE cells of one byte, all zero at first, held as the     *)
(* function from the nonzero cells to their values, a pointer that starts  *)
(* at 0, an input stream (the bytes of `input`, then zeros) of which       *)
(* `inp` bytes are consumed, and the list `ev` of the Read and Write       *)
(* events done, each with its value.                                       *)
(***************************************************************************)
InBytes == {1, 2, UINT8_MAX}

Cell(c) == IF c.ptr \in DOMAIN c.mem THEN c.mem[c.ptr] ELSE 0

Store(c, v) ==
    IF v = 0
    THEN [c EXCEPT !.mem = [q \in (DOMAIN c.mem) \ {c.ptr} |-> c.mem[q]]]
    ELSE [c EXCEPT !.mem = [q \in (DOMAIN c.mem) \cup {c.ptr} |->
                                IF q = c.ptr THEN v ELSE c.mem[q]]]

\* The four kinds of effect: add v to the current cell, move the pointer by
\* v, read a byte into the current cell, write the current cell.
AddToCell(c, v) == Store(c, (Cell(c) + v) % (UINT8_MAX + 1))

MovePointer(c, v) == [c EXCEPT !.ptr = (@ + v) % BF_MEMORY_SIZE]

ReadCell(c, input) ==
    LET v == IF c.inp < Len(input) THEN input[c.inp + 1] ELSE 0
    IN [Store(c, v) EXCEPT !.inp = @ + 1, !.ev = Append(@, << "Read", v >>)]

WriteCell(c) == [c EXCEPT !.ev = Append(@, << "Write", Cell(c) >>)]

Fresh == [mem |-> << >>, ptr |-> 0, inp |-> 0, ev |-> << >>, n |-> 0, halted |-> FALSE]

\* The source s interpreted character by character: `at` is the index of
\* the character to interpret; '[' skips its loop on a zero cell and ']'
\* goes back into it on a nonzero one.
SourceStart(s) == [(Fresh @@ [at |-> 1]) EXCEPT !.halted = (Len(s) = 0)]

OpenOf(s, j) == CHOOSE i \in 1 .. Len(s) : s[i] = "[" /\ MatchOf(s, i) = j

SourceStep(s, input, c) ==
    LET ch == s[c.at]
        d == CASE ch = "+" -> AddToCell(c, 1)
               [] ch = "-" -> AddToCell(c, UINT8_MAX)
               [] ch = ">" -> MovePointer(c, 1)
               [] ch = "<" -> MovePointer(c, BF_MEMORY_SIZE - 1)
               [] ch = "," -> ReadCell(c, input)
               [] ch = "." -> WriteCell(c)
               [] OTHER -> c
        to == CASE ch = "[" /\ Cell(c) = 0 -> MatchOf(s, c.at) + 1
                [] ch = "]" /\ Cell(c) # 0 -> OpenOf(s, c.at) + 1
                [] OTHER -> c.at + 1
    IN [d EXCEPT !.at = to, !.n = @ + 1, !.halted = to > Len(s)]

\* The program h interpreted: `at` is "test" before the guard of loop
\* header `block`, and "ops" before op `i` of `block`; `stack` holds the
\* headers of the loops that are running.  An Increment adds its value
\* modulo 256, a Shift moves the pointer modulo the memory size.  A block
\* with an exit link is a loop: while the current cell is not zero, its
\* ops and then its next chain are run; on a zero cell the program goes on
\* at the exit link.
RECURSIVE IrEnter(_, _, _)
RECURSIVE IrSettle(_, _)
IrEnter(h, c, b) ==
    IF h[b].exit # NULL
    THEN [c EXCEPT !.block = b, !.at = "test", !.i = 0]
    ELSE IrSettle(h, [c EXCEPT !.block = b, !.at = "ops", !.i = 1])

IrSettle(h, c) ==
    IF c.i <= Len(h[c.block].ops) THEN c
    ELSE IF h[c.block].next # NULL THEN IrEnter(h, c, h[c.block].next)
    ELSE IF c.stack = << >> THEN [c EXCEPT !.halted = TRUE, !.at = "end"]
    ELSE [c EXCEPT !.block = c.stack[Len(c.stack)], !.at = "test", !.i = 0,
                   !.stack = SubSeq(@, 1, Len(@) - 1)]

IrStart(h, root) ==
    IrEnter(h, Fresh @@ [block |-> root, at |-> "ops", i |-> 1, stack |-> << >>], root)

IrStep(h, input, c) ==
    IF c.at = "test"
    THEN IF Cell(c) = 0
         THEN IrEnter(h, [c EXCEPT !.n = @ + 1], h[c.block].exit)
         ELSE IrSettle(h, [c EXCEPT !.n = @ + 1, !.at = "ops", !.i = 1,
                                    !.stack = Append(@, c.block)])
    ELSE LET op == h[c.block].ops[c.i]
             d == CASE op.tag = OP_TAG_INC -> AddToCell(c, op.value)
                    [] op.tag = OP_TAG_SHIFT -> MovePointer(c, op.value)
                    [] op.tag = OP_TAG_READ -> ReadCell(c, input)
                    [] op.tag = OP_TAG_WRITE -> WriteCell(c)
         IN IrSettle(h, [d EXCEPT !.n = @ + 1, !.i = @ + 1])

(***************************************************************************)
(* A balanced source and an input stream are chosen; the source and the    *)
(* program parse builds from it are then interpreted side by side, a step  *)
(* of each at a time, for MaxSteps steps or until both have ended.         *)
(***************************************************************************)
\* The sources: the balanced ones of up to MaxProg characters, and one
\* command followed by a loop whose body is two commands, which parse may
\* merge into one op or into none.
LoopSources ==
    { << c, "[", x, y, "]" >> : c \in {"+", "-", ","}, x, y \in Commands \ {"[", "]"} }

MeaningSources ==
    { s \in Strings(Commands, MaxProg) : ~Parse(s).crashed } \cup LoopSources

InitMeaning ==
    /\ Idle
    /\ arg = None
    /\ res = None

MeaningCall ==
    /\ ~arg.done
    /\ \E s \in MeaningSources, input \in Strings(InBytes, MaxInput) :
          /\ arg' = [done |-> TRUE, src |-> s, input |-> input]
          /\ res' = [done |-> TRUE, heap |-> Parse(s).heap,
                     s |-> SourceStart(s), m |-> IrStart(Parse(s).heap, 1)]
    /\ UNCHANGED prog

MeaningStep ==
    /\ arg.done
    /\ res.s.n < MaxSteps
    /\ ~(res.s.halted /\ res.m.halted)
    /\ res' = [res EXCEPT
                  !.s = IF @.halted THEN [@ EXCEPT !.n = @ + 1]
                        ELSE SourceStep(arg.src, arg.input, @),
                  !.m = IF @.halted THEN @ ELSE IrStep(res.heap, arg.input, @)]
    /\ UNCHANGED << prog, arg >>

NextMeaning == MeaningCall \/ MeaningStep

SpecMeaning == InitMeaning /\ [][NextMeaning]_vars

(***************************************************************************)
(* C20.  Coalescing preserves meaning: for every balanced source S and     *)
(* every input stream, interpreting the program built by parse performs    *)
(* the same sequence of Read and Write events with the same values, and    *)
(* ends with the same memory and pointer, as interpreting S character by   *)
(* character with a wrapping pointer.  Step for step the program is never  *)
(* behind the source: the events of the source are the first events of     *)
(* the program; when the source has ended the program has ended, in the    *)
(* same memory, at the same pointer and with the same events; and when     *)
(* the program has ended in k steps the source has ended once it has had   *)
(* the steps for Len(S) characters per step of the program.                *)
(***************************************************************************)
C20_CoalescingPreservesMeaning ==
    res.done =>
        /\ IsPrefix(res.s.ev, res.m.ev)
        /\ res.s.halted =>
              /\ res.m.halted
              /\ res.m.ev = res.s.ev
              /\ res.m.mem = res.s.mem
              /\ res.m.ptr = res.s.ptr
        /\ (res.m.halted /\ res.s.n >= Len(arg.src) * (res.m.n + 1)) => res.s.halted

\* ',[--]' on the input 2: the body is the one op Increment 254; the source
\* ended after five characters and the program after four ops and tests,
\* both with the cell back at zero, having read 2.
C20_Witness ==
    /\ res.done
    /\ arg.src = << ",", "[", "-", "-", "]" >>
    /\ arg.input = << 2 >>
    /\ Len(res.heap[2].ops) = 1
    /\ res.heap[2].ops[1].value = UINT8_MAX - 1
    /\ res.s.halted /\ res.m.halted
    /\ res.s.n = 5 /\ res.m.n = 4
    /\ res.m.ev = << << "Read", 2 >> >>
    /\ res.m.mem = << >>
    /\ res.s.mem = << >>

(***************************************************************************)
(* The machine the assembly targets are written for, as far as the         *)
(* instructions of a Shift and of the linux Read use it.  A 32-bit         *)
(* register is its two 16-bit halves [hi, lo]; si, ax, bx, dx are the low  *)
(* halves of esi, eax, ebx, edx.  Addresses are counted from `mem`: the    *)
(* memory array is 0 .. BF_MEMORY_SIZE - 1, the four bytes of `tmp` start  *)
(* at `tmp`, wherever the link put them.  `bytes` maps the addresses of    *)
(* the nonzero bytes to their values.  `input` is the byte the next read   *)
(* gets, -1 if it gets none.  `wrapped` tells that a 16-bit addition       *)
(* carried out of bit 15.                                                  *)
(***************************************************************************)
UINT16_MAX == 65535

Reg(hi, lo) == [hi |-> hi, lo |-> lo]

ByteAt(bytes, a) == IF a \in DOMAIN bytes THEN bytes[a] ELSE 0

Poke(bytes, a, v) ==
    IF v = 0
    THEN [q \in (DOMAIN bytes) \ {a} |-> bytes[q]]
    ELSE [q \in (DOMAIN bytes) \cup {a} |-> IF q = a THEN v ELSE bytes[q]]

\* A 32-bit store and load, least significant byte first.
Poke32(bytes, a, r) ==
    Poke(Poke(Poke(Poke(bytes, a, r.lo % 256), a + 1, r.lo \div 256),
              a + 2, r.hi % 256), a + 3, r.hi \div 256)

Peek32(bytes, a) ==
    Reg(ByteAt(bytes, a + 2) + 256 * ByteAt(bytes, a + 3),
        ByteAt(bytes, a) + 256 * ByteAt(bytes, a + 1))

\* The immediate of `add si, <n>`, -1 if the line is no such instruction.
AddSiImmediate(line) ==
    LET ns == { n \in 0 .. (2 * BF_MEMORY_SIZE) : line = "add si, " \o ToString(n) }
    IN IF ns = { } THEN -1 ELSE CHOOSE n \in ns : TRUE

Fault(m, why) == [m EXCEPT !.fault = why]

\* int 80h with eax = 3: read(ebx, ecx, edx) of one byte into the byte at
\* ecx; eax gets the number of bytes read.
SysRead(m) ==
    IF m.input < 0
    THEN [m EXCEPT !.eax = Reg(0, 0)]
    ELSE [m EXCEPT !.bytes = Poke(@, m.ecx.lo, m.input), !.eax = Reg(0, 1), !.input = -1]

\* One instruction.
Exec(m, line) ==
    CASE line = "xor dx, dx" -> [m EXCEPT !.edx.lo = 0]
      [] line = "mov ax, si" -> [m EXCEPT !.eax.lo = m.esi.lo]
      [] line = "mov bx, 3000" -> [m EXCEPT !.ebx.lo = 3000]
      [] line = "mov si, dx" -> [m EXCEPT !.esi.lo = m.edx.lo]
      [] line = "div bx" ->
            IF m.ebx.lo = 0 \/ m.edx.lo >= m.ebx.lo
            THEN Fault(m, "divide error")
            ELSE LET dividend == m.edx.lo * (UINT16_MAX + 1) + m.eax.lo
                 IN [m EXCEPT !.eax.lo = dividend \div m.ebx.lo,
                              !.edx.lo = dividend % m.ebx.lo]
      [] line = "mov eax, 0x3" -> [m EXCEPT !.eax = Reg(0, 3)]
      [] line = "mov ebx, 0x1" -> [m EXCEPT !.ebx = Reg(0, 1)]
      [] line = "mov edx, 0x1" -> [m EXCEPT !.edx = Reg(0, 1)]
      [] line = "mov ecx, tmp" -> [m EXCEPT !.ecx = Reg(0, m.tmp)]
      [] line = "int 80h" ->
            IF m.eax = Reg(0, 3) /\ m.edx = Reg(0, 1) THEN SysRead(m)
            ELSE Fault(m, "system call")
      [] line = "mov eax, [tmp]" -> [m EXCEPT !.eax = Peek32(m.bytes, m.tmp)]
      [] line = "mov [mem + esi], eax" ->
            IF m.esi.hi # 0 THEN Fault(m, "segmentation fault")
            ELSE [m EXCEPT !.bytes = Poke32(@, m.esi.lo, m.eax)]
      [] AddSiImmediate(line) >= 0 ->
            LET sum == m.esi.lo + AddSiImmediate(line)
            IN [m EXCEPT !.esi.lo = sum % (UINT16_MAX + 1),
                         !.wrapped = @ \/ sum > UINT16_MAX]
      [] OTHER -> Fault(m, "illegal instruction")

(***************************************************************************)
(* The instructions of one op run on the machine.  The op is a Shift as    *)
(* block_append_op leaves it after merging two Shifts, for either assembly *)
(* target, or the Read of the linux target.  The pointer is anywhere in    *)
(* the memory array (taken near its ends and its middle); the cells from   *)
(* the pointer on and the bytes after the array hold `fill`; eax, ebx and  *)
(* edx hold what earlier instructions left.                                *)
(***************************************************************************)
ShiftValues == { k \in Critical(BF_MEMORY_SIZE) : k >= 1 /\ k < BF_MEMORY_SIZE }

Pointers == { k \in Critical(BF_MEMORY_SIZE) : k < BF_MEMORY_SIZE }

MergedShifts ==
    { block_append_op(<< Op(OP_TAG_SHIFT, a) >>, Op(OP_TAG_SHIFT, b)) : a, b \in ShiftValues }

AsmOps ==
    { << ops[1], t >> : ops \in MergedShifts \ {<< >>},
                        t \in {TARGET_NASM_LIBC, TARGET_NASM_LINUX} }
    \cup { << Op(OP_TAG_READ, 0), TARGET_NASM_LINUX >> }

Leftovers == { Reg(0, 0), Reg(0, 1), Reg(UINT16_MAX, UINT16_MAX) }

Filled(ptr, fill) == [a \in { a \in ptr .. (ptr + 4) : fill # 0 } |-> fill]

InitAsm ==
    /\ Idle
    /\ arg = None
    /\ res = None

AsmCall ==
    /\ ~arg.done
    /\ \E o \in AsmOps, ptr \in Pointers, left \in Leftovers, fill \in {0, 7},
          input \in {-1, 0, 65, UINT8_MAX},
          tmp \in {BF_MEMORY_SIZE, 2 * BF_MEMORY_SIZE} :
          /\ o[1].tag = OP_TAG_SHIFT => (fill = 0 /\ input = -1 /\ tmp = BF_MEMORY_SIZE)
          /\ o[1].tag = OP_TAG_READ => left = Reg(0, 0)
          /\ arg' = [done |-> TRUE, op |-> o[1], target |-> o[2], ptr |-> ptr,
                     bytes |-> Filled(ptr, fill), tmp |-> tmp]
          /\ res' = [done |-> FALSE,
                     code |-> emit_op(o[1], 0, GoodFile, o[2]).file.text,
                     ip |-> 1,
                     m |-> [eax |-> left, ebx |-> left, ecx |-> Reg(0, 0), edx |-> left,
                            esi |-> Reg(0, ptr), bytes |-> Filled(ptr, fill), tmp |-> tmp,
                            input |-> input, wrapped |-> FALSE, fault |-> "none"]]
    /\ UNCHANGED prog

AsmStep ==
    /\ arg.done
    /\ ~res.done
    /\ \E m \in { Exec(res.m, res.code[res.ip]) } :
          res' = [res EXCEPT !.m = m, !.ip = @ + 1,
                             !.done = (res.ip = Len(res.code) \/ m.fault # "none")]
    /\ UNCHANGED << prog, arg >>

NextAsm == AsmCall \/ AsmStep

SpecAsm == InitAsm /\ [][NextAsm]_vars

(***************************************************************************)
(* C21.  In both assembly targets the instructions emitted for Shift(d)    *)
(* leave the pointer register equal to (old pointer + d) mod memory size:  *)
(* with the old pointer and d both less than the memory size, the 16-bit   *)
(* addition of d to the pointer does not wrap around 2^16 before the       *)
(* division by the memory size, so the pointer stays in                    *)
(* 0 .. BF_MEMORY_SIZE - 1 after every Shift.                              *)
(***************************************************************************)
C21_ShiftKeepsPointerInRange ==
    (arg.done /\ arg.op.tag = OP_TAG_SHIFT) =>
        /\ arg.op.value < BF_MEMORY_SIZE
        /\ ~res.m.wrapped
        /\ res.m.fault = "none"
        /\ res.done =>
              /\ res.m.esi = Reg(0, (arg.ptr + arg.op.value) % BF_MEMORY_SIZE)
              /\ res.m.esi.lo \in 0 .. (BF_MEMORY_SIZE - 1)

\* From the last cell a Shift by the whole memory less one: the sum 5998
\* is divided, the quotient 1 is in ax and the pointer is 2998.
C21_Witness ==
    /\ arg.done
    /\ res.done
    /\ arg.op = Op(OP_TAG_SHIFT, BF_MEMORY_SIZE - 1)
    /\ arg.ptr = BF_MEMORY_SIZE - 1
    /\ res.code[1] = "add si, 2999"
    /\ res.m.eax.lo = 1
    /\ res.m.esi = Reg(0, BF_MEMORY_SIZE - 2)

(***************************************************************************)
(* C22.  In the linux assembly target the instructions emitted for a Read  *)
(* op replace only the cell at the current pointer with the one input      *)
(* byte: every other memory cell, and every byte outside the memory array  *)
(* (the scratch cell tmp aside, which the read goes through), keeps its    *)
(* value, for every pointer position in 0 .. BF_MEMORY_SIZE - 1.           *)
(***************************************************************************)
TmpBytes == arg.tmp .. (arg.tmp + 3)

C22_ReadChangesOneCell ==
    (arg.done /\ arg.op.tag = OP_TAG_READ) =>
        \A a \in (0 .. (2 * BF_MEMORY_SIZE + 3)) \ ({arg.ptr} \cup TmpBytes) :
            ByteAt(res.m.bytes, a) = ByteAt(arg.bytes, a)

(***************************************************************************)
(* C23.  The build completes before any output happens: when the source    *)
(* has unbalanced brackets the program terminates with failure before the  *)
(* output file is opened (created or truncated) and before any byte of the *)
(* preamble or body is written to the sink.  While parse runs and after it *)
(* has crashed the sink is untouched; a sink that is open or written to    *)
(* belongs to a balanced source whose parse has returned; and the crashed  *)
(* program takes no further step.                                          *)
(***************************************************************************)
C23_Inv ==
    /\ pc \in {"parse", "crashed"} => file = NoFile
    /\ file # NoFile => (Balanced(src) /\ pos = Len(src) + 1 /\ flie # NULL)
    /\ ~Balanced(src) => pc \in {"parse", "crashed"}
    /\ pc = "crashed" => exitcode = 1

C23_BuildBeforeOutput ==
    /\ [] C23_Inv
    /\ [][pc # "crashed"]_vars

\* '+]' has crashed: status 1, nothing opened, nothing written.
C23_Witness ==
    /\ pc = "crashed"
    /\ src = << "+", "]" >>
    /\ exitcode = 1
    /\ ~file.opened
    /\ file.text = << >>
    /\ file.count = 0

(***************************************************************************)
(* The offset-folding representation (repr.c, repr_execute).  A Block has  *)
(* a `branch` and a `next` link, the pointer movement `last_index` of its  *)
(* commands and its ops, each with the offset `index` of its cell from     *)
(* the pointer the block started at.  Blocks live in a heap of their own,  *)
(* by address; `brk` is the next address malloc or a moving realloc gives  *)
(* out, and `moves` says whether realloc moves the block it grows.         *)
(***************************************************************************)
ReprOp(tag, index, count) == [tag |-> tag, index |-> index, count |-> count]

ZeroBlock == [branch |-> NULL, next |-> NULL, last_index |-> 0, ops |-> << >>, capacity |-> 0]

\* block_append: an op on the cell and of the kind of the last op is
\* counted into it; otherwise the op is appended, the block growing to
\* twice its capacity (and moving) when it is full.
block_append(p, op) ==
    LET b == p.heap[p.current]
        n == Len(b.ops)
    IN IF n # 0 /\ b.ops[n].index = op.index /\ b.ops[n].tag = op.tag
       THEN [p EXCEPT !.heap[p.current].ops[n].count = @ + op.count]
       ELSE IF n = b.capacity
       THEN LET new_cap == IF b.capacity # 0 THEN b.capacity * 2 ELSE 1
                grown == [b EXCEPT !.capacity = new_cap, !.ops = Append(@, op)]
            IN IF p.moves
               THEN [p EXCEPT !.heap = [a \in ((DOMAIN p.heap) \ {p.current}) \cup {p.brk} |->
                                           IF a = p.brk THEN grown ELSE p.heap[a]],
                              !.current = p.brk,
                              !.brk = @ + 1]
               ELSE [p EXCEPT !.heap[p.current] = grown]
       ELSE [p EXCEPT !.heap[p.current].ops = Append(@, op)]

\* check_valid_bf: exit(1) with a message on a ']' that closes nothing and
\* on a '[' left open at the end.
RECURSIVE check_valid_bf_from(_, _, _)
check_valid_bf_from(s, index, indent_level) ==
    IF index = Len(s)
    THEN IF indent_level # 0
         THEN [ok |-> FALSE, exitcode |-> 1,
               stderr |-> "Invalid code: " \o ToString(indent_level)
                          \o " opening braces ('[') are left unbalanced"]
         ELSE [ok |-> TRUE, exitcode |-> -1, stderr |-> ""]
    ELSE LET c == s[index + 1]
         IN IF c = "]" /\ indent_level = 0
            THEN [ok |-> FALSE, exitcode |-> 1,
                  stderr |-> "Invalid code: no matching openeing brace ('[') "
                             \o "for closing brace (']') at byte " \o ToString(index)]
            ELSE check_valid_bf_from(s, index + 1,
                     IF c = "[" THEN indent_level + 1
                     ELSE IF c = "]" THEN indent_level - 1
                     ELSE indent_level)

check_valid_bf(s) == check_valid_bf_from(s, 0, 0)

\* `*to_current = current`: to_current is the address of `root`, of a
\* block's `next` or of a block's `branch`.
StoreCurrent(p) ==
    LET at == p.to_current
    IN IF at = << "root" >> THEN [p EXCEPT !.root = p.current]
       ELSE IF at[2] = "next" THEN [p EXCEPT !.heap[at[1]].next = p.current]
       ELSE [p EXCEPT !.heap[at[1]].branch = p.current]

\* repr_parse, lines 206-211 and 225-231: the block a '[' opened is pushed
\* when the next bracket is met; the current block is closed with the
\* pointer movement of its commands.
CloseCurrent(p) ==
    LET q == IF p.should_push_stack
             THEN [p EXCEPT !.should_push_stack = FALSE,
                            !.unclosed = Append(@, p.current)]
             ELSE p
    IN [q EXCEPT !.heap[q.current].last_index = q.index, !.index = 0]

\* repr_parse, one character of the switch.
ReprChar(p, c) ==
    CASE c = "+" -> block_append(p, ReprOp("OpIncrement", p.index, 1))
      [] c = "-" -> block_append(p, ReprOp("OpDecrement", p.index, 1))
      [] c = "," -> block_append(p, ReprOp("OpInput", p.index, 1))
      [] c = "." -> block_append(p, ReprOp("OpOutput", p.index, 1))
      [] c = ">" -> [p EXCEPT !.index = (@ + 1) % p.mem_size]
      [] c = "<" -> [p EXCEPT !.index = (@ + p.mem_size - 1) % p.mem_size]
      [] c = "[" ->
            LET q == CloseCurrent(p)
                blk == q.brk
                r == [q EXCEPT !.heap = (blk :> ZeroBlock) @@ @,
                               !.brk = @ + 1,
                               !.should_push_stack = TRUE,
                               !.heap[q.current].next = blk]
            IN [StoreCurrent(r) EXCEPT !.to_current = << r.current, "next" >>,
                                       !.current = blk]
      [] c = "]" ->
            LET q == CloseCurrent(p)
                blk == q.brk
                top == q.unclosed[Len(q.unclosed)]
                r == [q EXCEPT !.heap = (blk :> ZeroBlock) @@ @,
                               !.brk = @ + 1,
                               !.unclosed = SubSeq(@, 1, Len(@) - 1),
                               !.heap[q.current].next = top,
                               !.heap[top].branch = blk]
            IN [StoreCurrent(r) EXCEPT !.to_current = << top, "branch" >>,
                                       !.current = blk]
      [] OTHER -> p

RECURSIVE ReprFrom(_, _, _)
ReprFrom(p, s, i) == IF i > Len(s) THEN p ELSE ReprFrom(ReprChar(p, s[i]), s, i + 1)

\* repr_parse of a source check_valid_bf accepts.
repr_parse(s, mem_size, moves) ==
    LET p0 == [heap |-> (1 :> ZeroBlock), brk |-> 2, root |-> 1, current |-> 1,
               to_current |-> << "root" >>, should_push_stack |-> FALSE,
               index |-> 0, unclosed |-> << >>, mem_size |-> mem_size, moves |-> moves]
        p == ReprFrom(p0, s, 1)
        q == StoreCurrent([p EXCEPT !.heap[p.current].last_index = p.index])
    IN [root |-> q.root, mem_size |-> mem_size, heap |-> q.heap, unclosed |-> q.unclosed]

\* fgets(buffer, size, input): the number of bytes it reads, at most
\* size - 1, up to the end of the stream and up to and with a newline.
LineFeed == 10

FgetsCount(input, inp, size) ==
    LET avail == Min(size - 1, Len(input) - inp)
        feeds == { q \in 1 .. avail : input[inp + q] = LineFeed }
    IN IF feeds = {} THEN avail ELSE CHOOSE q \in feeds : \A o \in feeds : q <= o

\* repr_execute: `at` is "test" at the head of the while loop on a block
\* with a branch, "ops" before op `i` of `block`, "end" after the loop.
\* `inp` counts the bytes taken from the input, `out` is the output;
\* `overrun` records a write past the end of `memory`.
RECURSIVE ExecEnter(_, _, _)
RECURSIVE ExecSettle(_, _)
ExecEnter(h, c, b) ==
    IF b = NULL THEN [c EXCEPT !.block = b, !.at = "end", !.status = "returned"]
    ELSE IF h[b].branch # NULL THEN [c EXCEPT !.block = b, !.at = "test", !.i = 0]
    ELSE ExecSettle(h, [c EXCEPT !.block = b, !.at = "ops", !.i = 1, !.rel_index = c.index])

ExecSettle(h, c) ==
    IF c.i <= Len(h[c.block].ops) THEN c
    ELSE ExecEnter(h, [c EXCEPT !.index = (@ + h[c.block].last_index) % c.wrap],
                   h[c.block].next)

ExecStart(repr) ==
    ExecEnter(repr.heap,
              [memory |-> [a \in 0 .. (repr.mem_size - 1) |-> 0], wrap |-> repr.mem_size,
               index |-> 0, rel_index |-> 0, block |-> repr.root, at |-> "ops", i |-> 1,
               inp |-> 0, out |-> << >>, overrun |-> FALSE, status |-> "running", n |-> 0],
              repr.root)

ExecOp(c, op, input) ==
    LET j == (c.rel_index + op.index) % c.wrap
    IN CASE op.tag = "OpIncrement" ->
              [c EXCEPT !.memory[j] = (@ + op.count) % (UINT8_MAX + 1)]
         [] op.tag = "OpDecrement" ->
              [c EXCEPT !.memory[j] =
                  (@ + (UINT8_MAX + 1) - (op.count % (UINT8_MAX + 1))) % (UINT8_MAX + 1)]
         [] op.tag = "OpInput" ->
              LET k == FgetsCount(input, c.inp, op.count + 1)
              IN IF k = 0
                 THEN [c EXCEPT !.status = "aborted"]
                 ELSE [c EXCEPT !.memory = [a \in DOMAIN @ |->
                                               IF a - j \in 0 .. (k - 1) THEN input[c.inp + (a - j) + 1]
                                               ELSE IF a - j = k THEN 0
                                               ELSE @[a]],
                                !.overrun = @ \/ (j + k >= c.wrap),
                                !.inp = @ + k]
         [] op.tag = "OpOutput" ->
              [c EXCEPT !.out = @ \o [q \in 1 .. op.count |-> c.memory[j]]]

ExecStep(h, input, c) ==
    IF c.at = "test"
    THEN IF c.memory[c.index] = 0
         THEN ExecEnter(h, [c EXCEPT !.n = @ + 1], h[c.block].branch)
         ELSE ExecSettle(h, [c EXCEPT !.n = @ + 1, !.at = "ops", !.i = 1,
                                      !.rel_index = c.index])
    ELSE LET d == ExecOp(c, h[c.block].ops[c.i], input)
         IN IF d.status = "aborted" THEN [d EXCEPT !.n = @ + 1]
            ELSE ExecSettle(h, [d EXCEPT !.n = @ + 1, !.i = @ + 1])

\* The source interpreted character by character on mem_size cells of one
\* byte: '+' and '-' count modulo 256, '>' and '<' move the pointer modulo
\* mem_size, ',' takes the next byte of the input into the current cell
\* and '.' puts the current cell out.  A ',' at the end of the input marks
\* the run `starved`.
CanonStart(s, mem_size) ==
    [memory |-> [a \in 0 .. (mem_size - 1) |-> 0], ptr |-> 0, at |-> 1, inp |-> 0,
     out |-> << >>, starved |-> FALSE, n |-> 0, halted |-> (Len(s) = 0)]

CanonStep(s, mem_size, input, c) ==
    LET ch == s[c.at]
        d == CASE ch = "+" -> [c EXCEPT !.memory[c.ptr] = (@ + 1) % (UINT8_MAX + 1)]
               [] ch = "-" -> [c EXCEPT !.memory[c.ptr] = (@ + UINT8_MAX) % (UINT8_MAX + 1)]
               [] ch = ">" -> [c EXCEPT !.ptr = (@ + 1) % mem_size]
               [] ch = "<" -> [c EXCEPT !.ptr = (@ + mem_size - 1) % mem_size]
               [] ch = "," -> IF c.inp < Len(input)
                              THEN [c EXCEPT !.memory[c.ptr] = input[c.inp + 1], !.inp = @ + 1]
                              ELSE [c EXCEPT !.starved = TRUE]
               [] ch = "." -> [c EXCEPT !.out = Append(@, c.memory[c.ptr])]
               [] OTHER -> c
        to == CASE ch = "[" /\ c.memory[c.ptr] = 0 -> MatchOf(s, c.at) + 1
                [] ch = "]" /\ c.memory[c.ptr] # 0 -> OpenOf(s, c.at) + 1
                [] OTHER -> c.at + 1
    IN [d EXCEPT !.at = to, !.n = @ + 1, !.halted = to > Len(s)]

(***************************************************************************)
(* A source, a memory size and an input stream are chosen.  The source is  *)
(* checked and parsed, and then it and its representation are run side by  *)
(* side, a step of each at a time, for MaxExec steps or until both have    *)
(* ended.  A step of repr_execute that writes past the end of `memory`     *)
(* for the first time either goes on or ends the process.                  *)
(***************************************************************************)
ReprBytes == {LineFeed, 65}

InitRepr ==
    /\ Idle
    /\ arg = None
    /\ res = None

ReprCall ==
    /\ ~arg.done
    /\ \E s \in Strings(Commands, MaxRepr), mem_size \in 1 .. MaxMem,
          input \in Strings(ReprBytes, MaxStream), moves \in BOOLEAN :
          /\ arg' = [done |-> TRUE, src |-> s, mem_size |-> mem_size,
                     input |-> input, moves |-> moves]
          /\ res' = LET v == check_valid_bf(s)
                        repr == repr_parse(s, mem_size, moves)
                    IN IF v.ok
                       THEN [done |-> TRUE, valid |-> TRUE, repr |-> repr,
                             s |-> CanonStart(s, mem_size), e |-> ExecStart(repr)]
                       ELSE [done |-> TRUE, valid |-> FALSE, stderr |-> v.stderr,
                             exitcode |-> v.exitcode]
    /\ UNCHANGED prog

ReprStep ==
    /\ arg.done
    /\ res.valid
    /\ res.s.n < MaxExec
    /\ ~(res.s.halted /\ res.e.status # "running")
    /\ \E crash \in BOOLEAN :
          LET e == IF res.e.status = "running"
                   THEN ExecStep(res.repr.heap, arg.input, res.e)
                   ELSE res.e
          IN /\ crash => (e.overrun /\ ~res.e.overrun)
             /\ res' = [res EXCEPT
                           !.s = IF @.halted THEN [@ EXCEPT !.n = @ + 1]
                                 ELSE CanonStep(arg.src, arg.mem_size, arg.input, @),
                           !.e = IF crash THEN [e EXCEPT !.status = "crashed"] ELSE e]
    /\ UNCHANGED << prog, arg >>

NextRepr == ReprCall \/ ReprStep

SpecRepr == InitRepr /\ [][NextRepr]_vars

(***************************************************************************)
(* C24.  The offset-folding variant is observably equivalent to the        *)
(* canonical one: for every balanced source S, memory size and input       *)
(* stream, repr_execute on repr_parse(S, mem_size) consumes the same input *)
(* bytes, writes the same output bytes and leaves the same memory as       *)
(* interpreting S character by character (cells mod 256, pointer mod       *)
(* mem_size), including for runs of consecutive ',' or '.' on one cell and *)
(* for '+'/'-' mixes.  Stated for the runs whose input lasts: step for     *)
(* step the output of the source is the beginning of the output of         *)
(* repr_execute, and when the source has ended repr_execute has returned,  *)
(* with the same bytes taken, the same output and the same memory.         *)
(***************************************************************************)
C24_FoldingIsEquivalent ==
    (res.done /\ res.valid /\ ~res.s.starved) =>
        /\ IsPrefix(res.s.out, res.e.out)
        /\ res.s.halted =>
              /\ res.e.status = "returned"
              /\ res.e.inp = res.s.inp
              /\ res.e.out = res.s.out
              /\ res.e.memory = res.s.memory

\* The same for the sources that take no input: it holds.
C24_EquivalentWithoutInput ==
    (arg.done /\ \A i \in 1 .. Len(arg.src) : arg.src[i] # ",") => C24_FoldingIsEquivalent

Next == ParseStep \/ ParseReturn \/ OpenOutput \/ EmitBegin \/ EmitIter \/ EmitEnd

Spec == Init /\ [][Next]_vars

=============================================================================
